---- MODULE Spec2Model ----
(***************************************************************************)
(* Model of the financial-calculation core of portfolio_manager:           *)
(*   - Loan (src/Loan.py): commitment / draw / paydown bookkeeping and the  *)
(*     monthly amortization schedule;                                       *)
(*   - CarriedInterest (src/CarriedInterest.py): tiered LP/GP waterfall;    *)
(*   - Property (src/Property.py): ownership-event timeline.                *)
(*                                                                          *)
(* Dates are month indexes (a month-end date is the index of its month,    *)
(* the loan's funding month being 0).  Money is in whole currency units;   *)
(* the float expressions of the source are evaluated in integer arithmetic *)
(* (Loan: floor division; CarriedInterest: exact rationals).  Property     *)
(* dates keep the day within the month: date 2m is a day inside month m,   *)
(* date 2m+1 its last day; ownership shares are in percent.                *)
(***************************************************************************)
EXTENDS Integers, Naturals, Sequences, FiniteSets, TLC

\* ------------------------------------------------------------------ bounds
MaxMonths == 3      \* longest loan term, in scheduled months
MaxOps == 2         \* calls made on one loan object
MaxFlows == 3       \* entries of a waterfall's input cash-flow lists
MaxTiers == 2       \* tiers of a waterfall
MaxAnalysisMonths == 14   \* months of a property's analysis window

\* Optional[date] = None
NoDate == -1

Max(a, b) == IF a >= b THEN a ELSE b
Min(a, b) == IF a <= b THEN a ELSE b

RECURSIVE GCD(_, _)
GCD(a, b) == IF b = 0 THEN a ELSE GCD(b, a % b)

\* ===================================================================== Loan
\* terms: the constructor arguments; loan_draws, loan_paydowns, schedule,
\* unfunded: the attributes of the Loan object; generated: whether
\* generate_loan_schedule has run on it; ret: the value its last call
\* returned; nops: the calls made on it.  twin: a second Loan object built
\* from the same terms (its attributes and its call count).
VARIABLES terms, loan_draws, loan_paydowns, schedule, unfunded,
          generated, ret, nops, twin, loan_args

loanVars == <<terms, loan_draws, loan_paydowns, schedule, unfunded,
              generated, ret, nops, twin, loan_args>>

\* The CarriedInterest object: tiers, deal_dates, deal_cash_flows,
\* lp_cash_flows, gp_cash_flows; metrics: what calculate() returned;
\* cstatus: "constructed", "returned" or the exception calculate() raised;
\* given: the deal_dates and deal_cash_flows arguments of a constructor call
\* that is being followed, <<>> otherwise.
VARIABLES tiers, deal_dates, deal_cash_flows, lp_cash_flows, gp_cash_flows,
          metrics, cstatus, given

carryVars == <<tiers, deal_dates, deal_cash_flows, lp_cash_flows,
               gp_cash_flows, metrics, cstatus, given>>

\* The Property object: property holds the attributes the constructor
\* and add_partial_sale / add_partner_buyout set, ownership_changes is the
\* event list; pcall: the last call made on it and, for a query, its date
\* and the share returned;
\* property_ops: the calls made on it; market_values: the series the
\* constructor stores.
VARIABLES property, ownership_changes, pcall, property_ops, market_values

propVars == <<property, ownership_changes, pcall, property_ops,
              market_values>>

vars == <<loanVars, carryVars, propVars>>

\* the state of a component no object of which has been built
CarryIdle ==
    /\ tiers = <<>> /\ deal_dates = <<>> /\ deal_cash_flows = <<>>
    /\ lp_cash_flows = <<>> /\ gp_cash_flows = <<>>
    /\ metrics = <<>> /\ cstatus = "none" /\ given = <<>>

LoanIdle ==
    /\ terms = <<>> /\ loan_draws = <<>> /\ loan_paydowns = <<>>
    /\ schedule = <<>> /\ unfunded = <<>> /\ generated = FALSE
    /\ ret = 0 /\ nops = 0 /\ twin = <<>> /\ loan_args = <<>>

PropIdle ==
    /\ property = <<>> /\ ownership_changes = <<>>
    /\ pcall = <<>> /\ property_ops = 0 /\ market_values = <<>>

\* The modelled loan products: annual rate as <<numerator, denominator>>
\* (0% and 60%), day-count convention, interest_only_periods and
\* amortizing_periods.
LoanProducts ==
    { [rate |-> <<0, 1>>, payment_type |-> "Actual/360", io |-> 0, ap |-> 3],
      [rate |-> <<3, 5>>, payment_type |-> "Actual/360", io |-> 0, ap |-> 0],
      [rate |-> <<3, 5>>, payment_type |-> "30/360", io |-> 1, ap |-> 3],
      [rate |-> <<3, 5>>, payment_type |-> "Actual/365", io |-> 0, ap |-> 3] }

LoanAmounts == {100}
Commitments == {0, 50, 150}          \* 0: no commitment (commitment or None)
RequestAmounts == {40, 200}          \* draw / paydown requests

\* days in the calendar month of schedule month k (funding month: Jan 2024)
DaysInMonth(k) ==
    LET c == k % 12
    IN  IF c = 1 THEN (IF (k \div 12) % 4 = 0 THEN 29 ELSE 28)
        ELSE IF c \in {3, 5, 8, 10} THEN 30
        ELSE 31

RECURSIVE DaysBetween(_, _)
DaysBetween(start_date, end_date) ==
    IF end_date <= start_date THEN 0
    ELSE DaysInMonth(end_date) + DaysBetween(start_date, end_date - 1)

monthly_dates(t) == 0 .. (t.num_months - 1)

maturity_date(t) == t.num_months - 1

ZeroRow(enc) ==
    [beginning_balance |-> 0, loan_draw |-> 0, loan_paydown |-> 0,
     interest_payment |-> 0, scheduled_principal_payment |-> 0,
     ending_balance |-> 0, encumbered |-> enc]

initialize_loan_schedule(t) == [m \in monthly_dates(t) |-> ZeroRow(1)]

initialize_monthly_activity(t) == [m \in monthly_dates(t) |-> 0]

\* loan_draws.get(key, 0) / loan_paydowns.get(key, 0)
get_loan_draw(draws, key) == IF key \in DOMAIN draws THEN draws[key] ELSE 0

get_loan_paydown(pds, key) == IF key \in DOMAIN pds THEN pds[key] ELSE 0

calculate_interest(t, balance, start_date, end_date) ==
    LET date_delta == DaysBetween(start_date, end_date)
        numerator == IF t.payment_type = "30/360" THEN 30 ELSE date_delta
        denominator == IF t.payment_type = "Actual/365" THEN 365 ELSE 360
    IN  (balance * t.rate[1] * numerator) \div (t.rate[2] * denominator)

\* (1 + monthly_rate) ** total_payments for monthly_rate = a / b, in
\* millionths
RECURSIVE growth_factor(_, _, _)
growth_factor(a, b, total_payments) ==
    IF total_payments = 0 THEN 1000000
    ELSE (growth_factor(a, b, total_payments - 1) * (a + b)) \div b

\* the annuity formula, evaluated in fixed point: the growth factor in
\* millionths, its ratio to (growth factor - 1) in thousandths
calculate_amortizing_payment(rate, amortizing_periods, loan_balance) ==
    IF amortizing_periods = 0 THEN 0
    ELSE IF rate[1] = 0 THEN loan_balance \div amortizing_periods
    ELSE LET g == GCD(rate[1], 12 * rate[2])
             a == rate[1] \div g            \* monthly_rate = a / b
             b == (12 * rate[2]) \div g
             up == growth_factor(a, b, amortizing_periods)
             ratio == (up * 1000) \div (up - 1000000)
         IN  (((loan_balance * a) \div b) * ratio) \div 1000

initialize_unfunded_schedule(t) ==
    IF t.commitment = 0
    THEN [m \in monthly_dates(t) |-> 0]
    ELSE [m \in monthly_dates(t) |->
            IF m = 0 THEN t.commitment - t.loan_amount ELSE t.commitment]

RECURSIVE AdjustFrom(_, _, _, _, _)
AdjustFrom(t, unf, draws, pds, i) ==
    IF i >= t.num_months THEN unf
    ELSE LET base == IF i = 0 THEN unf[0] ELSE unf[i - 1]
             v == Max(0, base - draws[i] + pds[i])
         IN  AdjustFrom(t, [unf EXCEPT ![i] = v], draws, pds, i + 1)

adjust_unfunded_schedule(t, unf, draws, pds) ==
    IF t.commitment = 0 THEN unf ELSE AdjustFrom(t, unf, draws, pds, 0)

calculate_unfunded(t, draws, pds) ==
    adjust_unfunded_schedule(t, initialize_unfunded_schedule(t), draws, pds)

\* is_foreclosed with the foreclosure month itself left out
is_foreclosed_after(t, key) ==
    t.foreclosure_date # NoDate /\ key > t.foreclosure_date

\* foreclosure check of generate_loan_schedule
is_foreclosed(t, key) ==
    t.foreclosure_date # NoDate /\ key >= t.foreclosure_date

\* scheduled principal of a regular row
\* the scheduled principal without the limit at the beginning balance
scheduled_principal_payment_unclipped(t, i, interest, beg) ==
    IF t.amortizing_periods > 0 /\ i > t.interest_only_periods
    THEN Max(0, t.amortizing_payment - interest)
    ELSE 0

scheduled_principal_payment(t, i, interest, beg) ==
    IF t.amortizing_periods > 0 /\ i > t.interest_only_periods
    THEN Min(Max(0, t.amortizing_payment - interest), beg)
    ELSE 0

\* prepayment_amount / maturity_paydown, limited to the allowable paydown
forced_payoff(beg, draw, sp) ==
    LET amount == Max(0, beg - sp)
        allowable_paydown == beg + draw
    IN  IF amount > allowable_paydown THEN allowable_paydown ELSE amount

\* ending_balance without the floor at 0
ending_balance_unfloored(beg, draw, pd, sp) == beg + draw - pd - sp

\* ending balance of a regular row
ending_balance(beg, draw, pd, sp) == Max(0, beg + draw - pd - sp)

\* one iteration of the loop of generate_loan_schedule; g carries the
\* schedule, loan_paydowns, prior_key and prepayment_done
GenRow(t, draws, g, i) ==
    IF is_foreclosed(t, i)
    THEN [g EXCEPT !.schedule[i] = ZeroRow(0)]
    ELSE IF i = 0
    THEN LET pd == get_loan_paydown(g.loan_paydowns, 0)
         IN  [g EXCEPT !.schedule[0] =
                    [beginning_balance |-> 0, loan_draw |-> t.loan_amount,
                     loan_paydown |-> pd, interest_payment |-> 0,
                     scheduled_principal_payment |-> 0,
                     ending_balance |-> t.loan_amount - pd,
                     encumbered |-> g.schedule[0].encumbered],
                 !.prior_key = 0]
    ELSE IF g.prepayment_done /\ g.schedule[g.prior_key].ending_balance <= 0
    THEN [g EXCEPT !.schedule[i] = ZeroRow(0)]
    ELSE
      LET beg == Max(0, g.schedule[g.prior_key].ending_balance)
          draw == get_loan_draw(draws, i)
          pd0 == get_loan_paydown(g.loan_paydowns, i)
          interest == calculate_interest(t, beg, g.prior_key, i)
          sp == scheduled_principal_payment(t, i, interest, beg)
          payoff == forced_payoff(beg, draw, sp)
          isPrepay == t.prepayment_date # NoDate /\ i = t.prepayment_date
                      /\ ~g.prepayment_done
          done1 == g.prepayment_done \/ isPrepay
          isMaturity == i = maturity_date(t) /\ ~done1
          pd == IF isPrepay \/ isMaturity THEN payoff ELSE pd0
      IN  [schedule |-> [g.schedule EXCEPT ![i] =
                    [beginning_balance |-> beg, loan_draw |-> draw,
                     loan_paydown |-> pd, interest_payment |-> interest,
                     scheduled_principal_payment |-> sp,
                     ending_balance |-> ending_balance(beg, draw, pd, sp),
                     encumbered |-> g.schedule[i].encumbered]],
           loan_paydowns |-> IF isPrepay \/ isMaturity
                             THEN [g.loan_paydowns EXCEPT ![i] = payoff]
                             ELSE g.loan_paydowns,
           prior_key |-> i,
           prepayment_done |-> done1]

RECURSIVE GenFrom(_, _, _, _)
GenFrom(t, draws, g, i) ==
    IF i >= t.num_months THEN g
    ELSE GenFrom(t, draws, GenRow(t, draws, g, i), i + 1)

generate_loan_schedule(t, sched, draws, pds) ==
    GenFrom(t, draws,
            [schedule |-> sched, loan_paydowns |-> pds,
             prior_key |-> 0, prepayment_done |-> FALSE], 0)

\* -------------------------------------------------------------- Loan state
\* Loan.__init__ for valid arguments.  A loan whose fund and maturity dates
\* lie in the same calendar month (fund day before maturity day) passes the
\* fund_date >= maturity_date check and has a single scheduled month.
Terms ==
    { t \in
        { [loan_amount |-> la, rate |-> lp.rate,
           payment_type |-> lp.payment_type,
           num_months |-> n, interest_only_periods |-> lp.io,
           amortizing_periods |-> lp.ap,
           amortizing_payment |->
               calculate_amortizing_payment(lp.rate, lp.ap, la),
           commitment |-> c, prepayment_date |-> pp,
           foreclosure_date |-> fc] :
            la \in LoanAmounts, lp \in LoanProducts,
            n \in 1..MaxMonths, c \in Commitments,
            pp \in {NoDate} \cup (0..(MaxMonths - 1)),
            fc \in {NoDate} \cup (0..(MaxMonths - 1)) } :
        /\ t.prepayment_date < t.num_months
        /\ t.foreclosure_date < t.num_months }

\* the mutable fields of a Loan object, plus the value the last call returned
LoanObject(sched, draws, pds, unf, gen, r) ==
    [schedule |-> sched, loan_draws |-> draws, loan_paydowns |-> pds,
     unfunded |-> unf, generated |-> gen, ret |-> r]

self == LoanObject(schedule, loan_draws, loan_paydowns, unfunded, generated, ret)

add_loan_draw(t, o, draw, draw_date) ==
    LET prior_month == draw_date - 1
        allowable_draw == IF prior_month \in DOMAIN o.unfunded
                          THEN o.unfunded[prior_month] ELSE 0
        applied == Min(draw, allowable_draw)
        draws2 == IF draw_date \in DOMAIN o.loan_draws
                  THEN [o.loan_draws EXCEPT ![draw_date] = applied]
                  ELSE [m \in DOMAIN o.loan_draws \cup {draw_date} |->
                          IF m = draw_date THEN applied ELSE o.loan_draws[m]]
        g == generate_loan_schedule(t, o.schedule, draws2, o.loan_paydowns)
    IN  IF t.commitment # 0 /\ applied > 0
        THEN LoanObject(g.schedule, draws2, g.loan_paydowns,
                        calculate_unfunded(t, draws2, o.loan_paydowns),
                        TRUE, applied)
        ELSE [o EXCEPT !.ret = 0]

add_loan_paydown(t, o, paydown, paydown_date) ==
    LET g1 == generate_loan_schedule(t, o.schedule, o.loan_draws,
                                     o.loan_paydowns)
    IN  IF paydown_date \notin DOMAIN g1.schedule
        THEN LoanObject(g1.schedule, o.loan_draws, g1.loan_paydowns,
                        o.unfunded, TRUE, 0)
        ELSE LET row == g1.schedule[paydown_date]
                 allowable_paydown == row.beginning_balance + row.loan_draw
                 paydown1 == IF paydown > allowable_paydown
                             THEN allowable_paydown ELSE paydown
                 existing_paydown ==
                     get_loan_paydown(g1.loan_paydowns, paydown_date)
                 total_paydown ==
                     IF existing_paydown + paydown1 > allowable_paydown
                     THEN allowable_paydown
                     ELSE existing_paydown + paydown1
                 pds2 == [g1.loan_paydowns EXCEPT
                             ![paydown_date] = total_paydown]
                 sched2 == [g1.schedule EXCEPT ![paydown_date] =
                             [row EXCEPT
                                !.loan_paydown = total_paydown,
                                !.ending_balance =
                                    row.beginning_balance + row.loan_draw
                                    - total_paydown
                                    - row.scheduled_principal_payment]]
                 g3 == generate_loan_schedule(t, sched2, o.loan_draws, pds2)
             IN  LoanObject(g3.schedule, o.loan_draws, g3.loan_paydowns,
                            calculate_unfunded(t, o.loan_draws, pds2),
                            TRUE, 0)

\* term_months without the maturity month
term_months_exclusive(fund_date, maturity) ==
    (maturity[1] - fund_date[1]) * 12 + maturity[2] - fund_date[2]

\* the number of scheduled months: the calendar months from the funding
\* month to the maturity month, both counted; dates are <<year, month>>
term_months(fund_date, maturity) ==
    (maturity[1] - fund_date[1]) * 12 + maturity[2] - fund_date[2] + 1

\* Loan.__init__ from calendar dates
Loan(loan_amount, rate, fund_date, maturity, payment_type, interest_only_periods, amortizing_periods, commitment) ==
    [loan_amount |-> loan_amount, rate |-> rate,
     payment_type |-> payment_type,
     num_months |-> term_months(fund_date, maturity),
     interest_only_periods |-> interest_only_periods,
     amortizing_periods |-> amortizing_periods,
     amortizing_payment |->
         calculate_amortizing_payment(rate, amortizing_periods, loan_amount),
     commitment |-> commitment, prepayment_date |-> NoDate,
     foreclosure_date |-> NoDate]

\* loans of 1,000,000 at 6% funded 2024-01-31, without commitment, maturing
\* on the last day of a later month of 2024 or 2025 (fund_date must precede
\* maturity_date)
ScenarioTerms ==
    { Loan(1000000, <<6, 100>>, <<2024, 1>>, ym, pt, io, ap, 0) :
        ym \in ({2024, 2025} \X (1..12)) \ {<<2024, 1>>},
        pt \in {"Actual/360", "30/360", "Actual/365"},
        io \in {0, 1}, ap \in {0, 12} }

\* the attributes of a Loan just constructed from terms t
Constructed(t) ==
    /\ terms = t
    /\ loan_draws = initialize_monthly_activity(terms)
    /\ loan_paydowns = initialize_monthly_activity(terms)
    /\ schedule = initialize_loan_schedule(terms)
    /\ unfunded = calculate_unfunded(terms, loan_draws, loan_paydowns)
    /\ generated = FALSE
    /\ ret = 0
    /\ nops = 0
    /\ twin = [obj |-> self, nops |-> 0]
    /\ loan_args = <<>>

LoanInit == \E t \in Terms : Constructed(t)

ScenarioInit == \E t \in ScenarioTerms : Constructed(t)

\* dates a caller may pass: the scheduled months and the month after maturity
CallDates == 0 .. terms.num_months

Becomes(o) ==
    /\ schedule' = o.schedule
    /\ loan_draws' = o.loan_draws
    /\ loan_paydowns' = o.loan_paydowns
    /\ unfunded' = o.unfunded
    /\ generated' = o.generated
    /\ ret' = o.ret
    /\ nops' = nops + 1
    /\ UNCHANGED <<terms, twin, loan_args, carryVars, propVars>>

AddLoanDraw(draw, draw_date) ==
    /\ nops < MaxOps
    /\ \E o \in {add_loan_draw(terms, self, draw, draw_date)} : Becomes(o)

AddLoanPaydown(paydown, paydown_date) ==
    /\ nops < MaxOps
    /\ \E o \in {add_loan_paydown(terms, self, paydown, paydown_date)} :
            Becomes(o)

GenerateLoanSchedule ==
    /\ nops < MaxOps
    /\ \E g \in {generate_loan_schedule(terms, schedule, loan_draws,
                                        loan_paydowns)} :
            Becomes(LoanObject(g.schedule, loan_draws, g.loan_paydowns,
                               unfunded, TRUE, 0))

LoanDrawPaydownNext ==
    \/ \E a \in RequestAmounts, d \in CallDates : AddLoanDraw(a, d)
    \/ \E a \in RequestAmounts, d \in CallDates : AddLoanPaydown(a, d)

LoanNext ==
    \/ LoanDrawPaydownNext
    \/ GenerateLoanSchedule

\* the same three calls, made on the second loan object
TwinBecomes(o) ==
    /\ twin' = [obj |-> o, nops |-> twin.nops + 1]
    /\ UNCHANGED <<terms, loan_draws, loan_paydowns, schedule, unfunded,
                   generated, ret, nops, loan_args, carryVars, propVars>>

TwinAddLoanDraw(draw, draw_date) ==
    /\ twin.nops < MaxOps
    /\ \E o \in {add_loan_draw(terms, twin.obj, draw, draw_date)} :
            TwinBecomes(o)

TwinAddLoanPaydown(paydown, paydown_date) ==
    /\ twin.nops < MaxOps
    /\ \E o \in {add_loan_paydown(terms, twin.obj, paydown, paydown_date)} :
            TwinBecomes(o)

TwinGenerateLoanSchedule ==
    /\ twin.nops < MaxOps
    /\ \E g \in {generate_loan_schedule(terms, twin.obj.schedule,
                                        twin.obj.loan_draws,
                                        twin.obj.loan_paydowns)} :
            TwinBecomes(LoanObject(g.schedule, twin.obj.loan_draws,
                                   g.loan_paydowns, twin.obj.unfunded,
                                   TRUE, 0))

TwinNext ==
    \/ \E a \in RequestAmounts, d \in CallDates : TwinAddLoanDraw(a, d)
    \/ \E a \in RequestAmounts, d \in CallDates : TwinAddLoanPaydown(a, d)
    \/ TwinGenerateLoanSchedule

\* a Loan has been constructed, and nothing else
InitLoan == LoanInit /\ CarryIdle /\ PropIdle

\* one loan, any sequence of the three calls
SpecLoan == InitLoan /\ [][LoanNext]_vars

\* a loan of the 1,000,000 scenario has been constructed, and nothing else
InitScenario == ScenarioInit /\ CarryIdle /\ PropIdle

\* a scenario loan whose schedule is generated
SpecScenario == InitScenario /\ [][GenerateLoanSchedule]_vars

\* one loan, any sequence of add_loan_draw / add_loan_paydown calls
SpecDrawPaydown == InitLoan /\ [][LoanDrawPaydownNext]_vars

\* loans of 100 funded 2024-01-31 for four or five months, with a commitment
\* of the loan amount or above it
CommittedTerms ==
    { Loan(100, lp.rate, <<2024, 1>>, <<2024, m>>, lp.payment_type, lp.io,
           lp.ap, c) :
        lp \in LoanProducts, m \in {4, 5}, c \in {100, 150} }

CommittedInit == \E t \in CommittedTerms : Constructed(t)

InitCommitted == CommittedInit /\ CarryIdle /\ PropIdle

\* a loan with a sufficient commitment, any sequence of add_loan_draw /
\* add_loan_paydown calls
SpecCommitted == InitCommitted /\ [][LoanDrawPaydownNext]_vars

\* a Loan of an Actual/360 product has been constructed, and a second one
\* from the same arguments
InitTwin == InitLoan /\ terms.payment_type = "Actual/360"

\* two loans with equal terms, each with its own sequence of calls
SpecTwin == InitTwin /\ [][LoanNext \/ TwinNext]_vars

\* the value ret takes when a call raised KeyError: a dict was subscripted
\* by a key it does not hold
KeyError == 0 - 1

\* amounts and dates a caller may pass: zero and positive amounts, the month
\* before funding, the scheduled months and two months after maturity
AnyAmounts == {0} \cup RequestAmounts
AnyDates == (0 - 1) .. (terms.num_months + 1)

\* the test of add_loan_paydown with every date taken as scheduled
in_any_schedule(sched, paydown_date) == TRUE

\* paydown_date in self.schedule
in_schedule(sched, paydown_date) == paydown_date \in DOMAIN sched

\* the subscripts of adjust_unfunded_schedule
calculate_unfunded_error(t, draws, pds) ==
    IF t.commitment # 0
       /\ ~(monthly_dates(t) \subseteq (DOMAIN draws \cap DOMAIN pds))
    THEN KeyError ELSE 0

\* what add_loan_draw raises: KeyError or 0 for nothing
add_loan_draw_error(t, o, draw, draw_date) ==
    LET prior_month == draw_date - 1
        allowable_draw == IF prior_month \in DOMAIN o.unfunded
                          THEN o.unfunded[prior_month] ELSE 0
    IN  IF t.commitment # 0 /\ Min(draw, allowable_draw) > 0
        THEN calculate_unfunded_error(t, o.loan_draws, o.loan_paydowns)
        ELSE 0

\* what add_loan_paydown raises: the rows self.schedule[paydown_date] are
\* read once the date has passed the test
add_loan_paydown_error(t, o, paydown, paydown_date) ==
    IF ~in_schedule(o.schedule, paydown_date) THEN 0
    ELSE IF paydown_date \notin DOMAIN o.schedule THEN KeyError
    ELSE calculate_unfunded_error(t, o.loan_draws, o.loan_paydowns)

\* the call raised: nothing is returned
Raises(error) ==
    /\ ret' = error
    /\ nops' = nops + 1
    /\ UNCHANGED <<terms, loan_draws, loan_paydowns, schedule, unfunded,
                   generated, twin, loan_args, carryVars, propVars>>

AnyLoanDraw(draw, draw_date) ==
    /\ nops < MaxOps
    /\ ret # KeyError
    /\ \E e \in {add_loan_draw_error(terms, self, draw, draw_date)} :
          IF e # 0 THEN Raises(e)
          ELSE \E o \in {add_loan_draw(terms, self, draw, draw_date)} :
                  Becomes(o)

AnyLoanPaydown(paydown, paydown_date) ==
    /\ nops < MaxOps
    /\ ret # KeyError
    /\ \E e \in {add_loan_paydown_error(terms, self, paydown,
                                        paydown_date)} :
          IF e # 0 THEN Raises(e)
          ELSE \E o \in {add_loan_paydown(terms, self, paydown,
                                          paydown_date)} :
                  Becomes(o)

AnyDateNext ==
    \/ \E a \in AnyAmounts, d \in AnyDates : AnyLoanDraw(a, d)
    \/ \E a \in AnyAmounts, d \in AnyDates : AnyLoanPaydown(a, d)
    \/ GenerateLoanSchedule

\* one loan; draws and paydowns of any non-negative amount on any date
SpecAnyDate == InitLoan /\ [][AnyDateNext]_vars

\* calendar dates <<year, month, day>>: d1 >= d2
date_ge(d1, d2) ==
    \/ d1[1] > d2[1]
    \/ d1[1] = d2[1] /\ d1[2] > d2[2]
    \/ d1[1] = d2[1] /\ d1[2] = d2[2] /\ d1[3] >= d2[3]

\* get_end_of_month: the month of the date, <<year, month>>
get_end_of_month(input_date) == <<input_date[1], input_date[2]>>

\* the checks at the head of Loan.__init__: the exception raised, "" if none
validate(a) ==
    IF a.loan_amount < 0 THEN "ValueError"
    ELSE IF a.rate[1] < 0 \/ a.rate[1] > a.rate[2] THEN "ValueError"
    ELSE IF date_ge(a.fund_date, a.maturity_date) THEN "ValueError"
    ELSE IF a.payment_type \notin {"Actual/360", "30/360", "Actual/365"}
    THEN "ValueError"
    ELSE ""

\* the arguments of the constructor calls followed
LoanArguments ==
    [loan_amount : {0 - 1, 0, 100},
     rate : {<<0 - 1, 10>>, <<0, 1>>, <<3, 5>>, <<1, 1>>, <<3, 2>>},
     fund_date : {<<2024, 1, 10>>, <<2024, 1, 31>>, <<2024, 2, 15>>},
     maturity_date : {<<2024, 1, 20>>, <<2024, 1, 31>>, <<2024, 2, 29>>,
                      <<2024, 3, 31>>},
     payment_type : {"Actual/360", "30/360", "Actual/365", "Actual/Actual"},
     status : {"calling"}]

\* a caller is about to construct a Loan from arguments
ArgumentsInit ==
    /\ loan_args \in LoanArguments
    /\ terms = <<>> /\ loan_draws = <<>> /\ loan_paydowns = <<>>
    /\ schedule = <<>> /\ unfunded = <<>> /\ generated = FALSE
    /\ ret = 0 /\ nops = 0 /\ twin = <<>>

\* Loan.__init__(loan_args): ValueError and no object, or the object
LoanConstruct ==
    /\ loan_args # <<>>
    /\ loan_args.status = "calling"
    /\ IF validate(loan_args) # ""
       THEN /\ loan_args' = [loan_args EXCEPT !.status = validate(loan_args)]
            /\ UNCHANGED <<terms, loan_draws, loan_paydowns, schedule,
                           unfunded, generated, ret, nops, twin>>
       ELSE \E t \in {Loan(loan_args.loan_amount, loan_args.rate,
                           get_end_of_month(loan_args.fund_date),
                           get_end_of_month(loan_args.maturity_date),
                           loan_args.payment_type, 0, 3, 0)} :
              /\ loan_args' = [loan_args EXCEPT !.status = "constructed"]
              /\ terms' = t
              /\ loan_draws' = initialize_monthly_activity(t)
              /\ loan_paydowns' = initialize_monthly_activity(t)
              /\ schedule' = initialize_loan_schedule(t)
              /\ unfunded' = calculate_unfunded(t, loan_draws', loan_paydowns')
              /\ UNCHANGED <<generated, ret, nops, twin>>
    /\ UNCHANGED <<carryVars, propVars>>

\* generate_loan_schedule() on the loan just constructed
GenerateConstructed ==
    /\ loan_args # <<>>
    /\ loan_args.status = "constructed"
    /\ ~generated
    /\ \E g \in {generate_loan_schedule(terms, schedule, loan_draws,
                                        loan_paydowns)} :
          /\ schedule' = g.schedule
          /\ loan_paydowns' = g.loan_paydowns
          /\ generated' = TRUE
    /\ UNCHANGED <<terms, loan_draws, unfunded, ret, nops, twin, loan_args,
                   carryVars, propVars>>

InitArguments == ArgumentsInit /\ CarryIdle /\ PropIdle

\* one constructor call, and the schedule of the loan it built
SpecConstruct == InitArguments /\ [][LoanConstruct \/ GenerateConstructed]_vars

\* ------------------------------------------------------------ Loan claims
OnOrAfterForeclosure(m) ==
    terms.foreclosure_date # NoDate /\ m >= terms.foreclosure_date

RowBalances(r) ==
    r.ending_balance =
        Max(0, r.beginning_balance + r.loan_draw - r.loan_paydown
               - r.scheduled_principal_payment)

\* C1: after any sequence of add_loan_draw, add_loan_paydown and
\* generate_loan_schedule calls every schedule row has
\* ending = max(0, beginning + draw - paydown - scheduled principal)
\* (the all-zero rows of foreclosure and of a completed prepayment included).
C1_RowBalance == \A m \in DOMAIN schedule : RowBalances(schedule[m])

\* C1 witness: a generated row whose recorded paydown and scheduled principal
\* exceed beginning + draw, so that the clamp at 0 decides the ending balance,
\* next to a row with a draw and a positive ending balance.
C1_Witness ==
    /\ generated
    /\ \E m \in DOMAIN schedule :
          schedule[m].loan_paydown + schedule[m].scheduled_principal_payment
              > schedule[m].beginning_balance + schedule[m].loan_draw
    /\ \E m \in DOMAIN schedule :
          schedule[m].loan_draw > 0 /\ schedule[m].ending_balance > 0

UnfundedRecurrence(m) ==
    LET base == IF m = 0 THEN terms.commitment - terms.loan_amount
                ELSE unfunded[m - 1]
    IN  unfunded[m] = Max(0, base - loan_draws[m] + loan_paydowns[m])

\* C4: on a loan with a commitment, after any sequence of add_loan_draw and
\* add_loan_paydown calls the unfunded commitment of every scheduled month is
\* >= 0 and equals max(0, prior month's unfunded - that month's draw + that
\* month's paydown), the funding month starting from commitment - loan_amount.
C4_Claim ==
    terms.commitment # 0 =>
        \A m \in DOMAIN unfunded : unfunded[m] >= 0 /\ UnfundedRecurrence(m)

\* C5: once the schedule of a loan with a foreclosure date is generated,
\* every row on or after the foreclosure month is all-zero with encumbered 0,
\* and no paydown (payoff) is recorded for such a month.
C5_ForeclosedRowsZero ==
    generated =>
        \A m \in DOMAIN schedule :
            OnOrAfterForeclosure(m) =>
                schedule[m] = ZeroRow(0) /\ loan_paydowns[m] = 0

\* C5 witness: the foreclosure month is also the prepayment month, a draw
\* is recorded for it and the month before it ends with a balance.
C5_Witness ==
    /\ generated
    /\ terms.foreclosure_date >= 1
    /\ terms.prepayment_date = terms.foreclosure_date
    /\ loan_draws[terms.foreclosure_date] > 0
    /\ schedule[terms.foreclosure_date - 1].ending_balance > 0

\* C6: regeneration is idempotent, and two loans with equal terms and equal
\* recorded draws and paydowns have identical schedules (every field) and
\* identical unfunded series, whatever calls led there.
C6_Claim ==
    /\ generated =>
          LET g == generate_loan_schedule(terms, schedule, loan_draws,
                                          loan_paydowns)
          IN  g.schedule = schedule /\ g.loan_paydowns = loan_paydowns
    /\ ( /\ generated /\ twin.obj.generated
         /\ loan_draws = twin.obj.loan_draws
         /\ loan_paydowns = twin.obj.loan_paydowns )
       => /\ schedule = twin.obj.schedule
          /\ unfunded = twin.obj.unfunded

\* what add_loan_draw(draw, draw_date) is to return in the current state
AppliedDraw(draw, draw_date) ==
    LET available == IF draw_date - 1 \in DOMAIN unfunded
                     THEN unfunded[draw_date - 1] ELSE 0
    IN  IF terms.commitment = 0 THEN 0 ELSE Max(0, Min(draw, available))

\* C7: add_loan_draw returns min(amount, prior month's unfunded), or 0 when
\* nothing is available or there is no commitment, and when it returns a
\* positive value the regenerated row of that month has that loan_draw.
C7_Claim ==
    [][ \A a \in RequestAmounts, d \in CallDates :
          AddLoanDraw(a, d) =>
             /\ ret' = AppliedDraw(a, d)
             /\ (ret' > 0 /\ d \in DOMAIN schedule')
                    => schedule'[d].loan_draw = ret' ]_vars

\* C8: after any sequence of add_loan_paydown and add_loan_draw calls every
\* schedule row has loan_paydown <= beginning_balance + loan_draw.
C8_Claim ==
    \A m \in DOMAIN schedule :
        schedule[m].loan_paydown
            <= schedule[m].beginning_balance + schedule[m].loan_draw

\* C9: in a generated schedule the maturity row, and the prepayment row when
\* a prepayment date is set, carries the forced payoff and ends at 0, and
\* every row after the prepayment month is all-zero with encumbered 0
\* (rows of the funding month and foreclosed rows apart).
C9_Claim ==
    generated =>
        \A m \in DOMAIN schedule :
            (m >= 1 /\ ~OnOrAfterForeclosure(m)) =>
                LET r == schedule[m]
                    pp == terms.prepayment_date
                IN  /\ (m = pp \/ (m = maturity_date(terms) /\ pp = NoDate))
                          => /\ r.loan_paydown =
                                   forced_payoff(r.beginning_balance,
                                                 r.loan_draw,
                                                 r.scheduled_principal_payment)
                             /\ r.ending_balance = 0
                    /\ (pp >= 1 /\ m > pp) => r = ZeroRow(0)

\* C27: on a loan whose commitment is at least its loan amount, after any
\* sequence of add_loan_draw and add_loan_paydown calls, in any order of
\* months, no schedule row ends with a balance above the commitment.
C27_Claim ==
    (terms.commitment # 0 /\ terms.commitment >= terms.loan_amount) =>
        \A m \in DOMAIN schedule :
            schedule[m].ending_balance <= terms.commitment

\* Loan(1,000,000, 0.06, 2024-01-31, 2025-01-31, Actual/360, io 0,
\* amortizing 12, no commitment)
IsScenarioLoan ==
    terms = Loan(1000000, <<6, 100>>, <<2024, 1>>, <<2025, 1>>,
                 "Actual/360", 0, 12, 0)

FirstRowFunds ==
    /\ schedule[0].beginning_balance = 0
    /\ schedule[0].loan_draw = terms.loan_amount

\* C11 as stated: the generated schedule of the scenario loan has 12 rows,
\* its first row has beginning_balance 0 and loan_draw 1,000,000, and its
\* final row has ending_balance 0.
C11_Claim ==
    (generated /\ IsScenarioLoan) =>
        /\ Cardinality(DOMAIN schedule) = 12
        /\ FirstRowFunds /\ schedule[0].loan_draw = 1000000
        /\ schedule[maturity_date(terms)].ending_balance = 0

\* C11 amended: the schedule has one row per calendar month from the funding
\* month to the maturity month, both included: 13 rows for the scenario
\* loan (2024-01-31 .. 2025-01-31); the first row has beginning_balance 0
\* and loan_draw equal to the loan amount (1,000,000), and the maturity row
\* has ending_balance 0.
C11_Amended ==
    /\ DOMAIN schedule = 0 .. maturity_date(terms)
    /\ IsScenarioLoan =>
          /\ Cardinality(DOMAIN schedule) = 13
          /\ terms.loan_amount = 1000000
    /\ generated =>
          /\ FirstRowFunds
          /\ schedule[maturity_date(terms)].ending_balance = 0

\* C11 witness: the scenario loan's schedule was generated; it amortizes over
\* the twelve months after funding and is paid off in the thirteenth row.
C11_Witness ==
    /\ generated /\ IsScenarioLoan
    /\ schedule[0].loan_draw = 1000000
    /\ schedule[11].ending_balance > 0
    /\ schedule[12].loan_paydown > 0
    /\ schedule[12].ending_balance = 0

\* C22: no call raises, and after every call the schedule has exactly one
\* complete row for every scheduled month, with no negative balance and no
\* negative unfunded amount
C22_Completes ==
    /\ ret >= 0
    /\ DOMAIN schedule = 0 .. (terms.num_months - 1)
    /\ \A m \in DOMAIN schedule :
          /\ DOMAIN schedule[m] =
                {"beginning_balance", "loan_draw", "loan_paydown",
                 "interest_payment", "scheduled_principal_payment",
                 "ending_balance", "encumbered"}
          /\ schedule[m].beginning_balance >= 0
          /\ schedule[m].ending_balance >= 0
    /\ \A m \in 0 .. (terms.num_months - 1) : unfunded[m] >= 0

\* a draw dated after maturity was recorded on a loan with a foreclosure date,
\* and a second call was made
C22_Witness ==
    /\ nops = MaxOps
    /\ generated
    /\ terms.foreclosure_date # NoDate
    /\ \E d \in DOMAIN loan_draws : d >= terms.num_months /\ loan_draws[d] > 0

\* C21: a constructed Loan has loan_amount >= 0, 0 <= rate <= 1, one of the
\* three day-count conventions and a stored fund date strictly before its
\* stored maturity date; a rejected call raised ValueError and left no object
C21_Claim ==
    (loan_args # <<>>) =>
        /\ loan_args.status = "constructed" =>
              /\ terms.loan_amount >= 0
              /\ terms.rate[1] >= 0 /\ terms.rate[1] <= terms.rate[2]
              /\ terms.payment_type \in {"Actual/360", "30/360", "Actual/365"}
              /\ maturity_date(terms) > 0
        /\ loan_args.status = "ValueError" => terms = <<>>

\* C21 without the order of the stored dates
C21_Validated ==
    (loan_args # <<>>) =>
        /\ loan_args.status = "constructed" =>
              /\ terms.loan_amount >= 0
              /\ terms.rate[1] >= 0 /\ terms.rate[1] <= terms.rate[2]
              /\ terms.payment_type \in {"Actual/360", "30/360", "Actual/365"}
              /\ maturity_date(terms) >= 0
        /\ loan_args.status = "ValueError" => terms = <<>>

\* ========================================================== CarriedInterest
\* Floats are modelled by exact rationals [n |-> numerator, d |-> denominator]
\* in lowest terms with d > 0.
Abs(x) == IF x < 0 THEN 0 - x ELSE x

Rat(n, d) ==
    LET g == GCD(Abs(n), d)
    IN  [n |-> n \div g, d |-> d \div g]

Zero == Rat(0, 1)
One == Rat(1, 1)

RNeg(a) == [n |-> 0 - a.n, d |-> a.d]
RAdd(a, b) ==
    LET g == GCD(a.d, b.d)
    IN  Rat(a.n * (b.d \div g) + b.n * (a.d \div g), (a.d \div g) * b.d)
RSub(a, b) == RAdd(a, RNeg(b))
RMul(a, b) ==
    LET x == Rat(a.n, b.d)
        y == Rat(b.n, a.d)
    IN  Rat(x.n * y.n, x.d * y.d)
RInv(b) == IF b.n > 0 THEN [n |-> b.d, d |-> b.n]
           ELSE [n |-> 0 - b.d, d |-> 0 - b.n]
RDiv(a, b) == RMul(a, RInv(b))
RLe(a, b) == RSub(a, b).n <= 0
RMin(a, b) == IF RLe(a, b) THEN a ELSE b

RECURSIVE RPow(_, _)
RPow(a, e) == IF e = 0 THEN One ELSE RMul(a, RPow(a, e - 1))

RECURSIVE RSum(_)
RSum(seq) == IF seq = <<>> THEN Zero ELSE RAdd(Head(seq), RSum(Tail(seq)))

\* TierParams(lp_dist_ratio, hurdle_rate)
TierParams(lp, h) == [lp_dist_ratio |-> lp, hurdle_rate |-> h]

gp_dist_ratio(tier) == RSub(One, tier.lp_dist_ratio)

\* the tiers the modelled waterfalls are built from
TierChoices ==
    { TierParams(Rat(9, 10), Zero), TierParams(Rat(1, 2), Zero),
      TierParams(Rat(4, 5), Rat(1, 10)) }

\* cash-flow dates are whole 365-day years after an epoch; a missing date
\* (None) is NoDate
FlowDates == {NoDate, 0, 1, 2}
FlowAmounts == {0 - 10, 2, 20}

SeqsUpTo(S, n) == UNION { [1..k -> S] : k \in 0..n }

RECURSIVE SortedSeq(_)
SortedSeq(S) ==
    IF S = {} THEN <<>>
    ELSE LET least == CHOOSE x \in S : \A y \in S : x <= y
         IN  <<least>> \o SortedSeq(S \ {least})

\* a cash flow that is None, and one that is NaN
NoneFlow == 0 - 100000
NaN == 0 - 100001

\* d is None or cf is None or math.isnan(cf)
is_skipped(d, cf) == d = NoDate \/ cf = NoneFlow \/ cf = NaN

\* the loop of sum_cash_flows_by_date with summed[d] = cf for a date already
\* present
RECURSIVE LastOnDate(_, _, _)
LastOnDate(dates, cash_flows, d) ==
    IF dates = <<>> \/ cash_flows = <<>> THEN 0
    ELSE LET rest == LastOnDate(Tail(dates), Tail(cash_flows), d)
         IN  IF Head(dates) = d /\ ~is_skipped(Head(dates), Head(cash_flows))
                /\ rest = 0
             THEN Head(cash_flows) ELSE rest

\* summed[d] after the loop of sum_cash_flows_by_date
RECURSIVE SumOnDate(_, _, _)
SumOnDate(dates, cash_flows, d) ==
    IF dates = <<>> \/ cash_flows = <<>> THEN 0
    ELSE (IF Head(dates) = d /\ ~is_skipped(Head(dates), Head(cash_flows))
          THEN Head(cash_flows) ELSE 0)
         + SumOnDate(Tail(dates), Tail(cash_flows), d)

\* sum_cash_flows_by_date: <<sorted unique dates, summed cash flows>>
sum_cash_flows_by_date(dates, cash_flows) ==
    LET n == Min(Len(dates), Len(cash_flows))
        kept == { dates[k] :
                     k \in { j \in 1..n :
                                ~is_skipped(dates[j], cash_flows[j]) } }
        sorted_dates == SortedSeq(kept)
    IN  <<sorted_dates,
          [k \in 1..Len(sorted_dates) |->
              Rat(SumOnDate(dates, cash_flows, sorted_dates[k]), 1)]>>

\* (d1 - d0).days / 365.0, in whole years
day_count_fraction(d1, d0) == d1 - d0

\* _initial_allocation: <<lp_cash_flows, gp_cash_flows>>
\* the allocations left by the previous call, not re-initialised
initial_allocation_kept(trs, deal) == <<lp_cash_flows, gp_cash_flows>>

initial_allocation(trs, deal) ==
    LET first_tier == trs[1]
    IN  <<[i \in 1..Len(deal) |->
              IF deal[i].n < 0 THEN RMul(deal[i], first_tier.lp_dist_ratio)
              ELSE Zero],
          [i \in 1..Len(deal) |->
              IF deal[i].n < 0 THEN RMul(deal[i], gp_dist_ratio(first_tier))
              ELSE Zero]>>

RECURSIVE NpvUpTo(_, _, _, _)
NpvUpTo(dates, j, cf_array, rate) ==
    IF j = 0 THEN Zero
    ELSE RAdd(NpvUpTo(dates, j - 1, cf_array, rate),
              RDiv(cf_array[j],
                   RPow(RAdd(One, rate),
                        day_count_fraction(dates[j], dates[1]))))

\* _future_value (the final round(fv, 10) is exact on rationals)
future_value(dates, up_to_index, cf_array, rate) ==
    LET npv == RNeg(NpvUpTo(dates, up_to_index, cf_array, rate))
        t_current == day_count_fraction(dates[up_to_index], dates[1])
    IN  RMul(npv, RPow(RAdd(One, rate), t_current))

\* remaining_cf <= 1e-12: every positive amount the model's inputs can
\* produce is far above 1e-12
is_spent(remaining_cf) == remaining_cf.n <= 0

\* the loop over tiers for period i; a carries lp, gp (the two arrays) and
\* remaining_cf; k is the tier to apply
RECURSIVE TierLoop(_, _, _, _, _)
TierLoop(trs, dates, a, i, k) ==
    IF k > Len(trs) THEN a
    ELSE LET tier == trs[k]
             required_fv == future_value(dates, i, a.lp, tier.hurdle_rate)
             alloc_lp == RMin(required_fv,
                              RMul(a.remaining_cf, tier.lp_dist_ratio))
             alloc_gp == RMul(alloc_lp, RDiv(gp_dist_ratio(tier),
                                             tier.lp_dist_ratio))
             a2 == [lp |-> [a.lp EXCEPT ![i] = RAdd(@, alloc_lp)],
                    gp |-> [a.gp EXCEPT ![i] = RAdd(@, alloc_gp)],
                    remaining_cf |->
                        RSub(a.remaining_cf, RAdd(alloc_lp, alloc_gp))]
         IN  IF is_spent(a2.remaining_cf) THEN a2
             ELSE TierLoop(trs, dates, a2, i, k + 1)

\* residual_split with the GP part taken from the first tier's ratio
residual_split_first_gp(trs, a, i) ==
    IF is_spent(a.remaining_cf) THEN a
    ELSE [a EXCEPT
            !.lp[i] = RAdd(@, RMul(a.remaining_cf,
                                   trs[Len(trs)].lp_dist_ratio)),
            !.gp[i] = RAdd(@, RMul(a.remaining_cf, gp_dist_ratio(trs[1])))]

\* residual_split that leaves the remainder unallocated
residual_split_dropped(trs, a, i) == a

\* the split of what is left after all tiers, by the last tier's ratios
residual_split(trs, a, i) ==
    LET last_tier == trs[Len(trs)]
    IN  IF is_spent(a.remaining_cf) THEN a
        ELSE [a EXCEPT
                !.lp[i] = RAdd(@, RMul(a.remaining_cf,
                                       last_tier.lp_dist_ratio)),
                !.gp[i] = RAdd(@, RMul(a.remaining_cf,
                                       gp_dist_ratio(last_tier)))]

\* _tier_distribution from period i on: <<lp_cash_flows, gp_cash_flows>>
RECURSIVE TierDistributionFrom(_, _, _, _, _, _)
TierDistributionFrom(trs, dates, deal, lp, gp, i) ==
    IF i > Len(deal) THEN <<lp, gp>>
    ELSE IF deal[i].n > 0
    THEN LET a == residual_split(trs,
                     TierLoop(trs, dates,
                              [lp |-> lp, gp |-> gp, remaining_cf |-> deal[i]],
                              i, 1),
                     i)
         IN  TierDistributionFrom(trs, dates, deal, a.lp, a.gp, i + 1)
    ELSE TierDistributionFrom(trs, dates, deal, lp, gp, i + 1)

tier_distribution(trs, dates, deal, lp, gp) ==
    TierDistributionFrom(trs, dates, deal, lp, gp, 1)

Negatives(seq) == [i \in 1..Len(seq) |-> IF seq[i].n < 0 THEN seq[i] ELSE Zero]
Positives(seq) == [i \in 1..Len(seq) |-> IF seq[i].n > 0 THEN seq[i] ELSE Zero]

\* rel_tol of the assertion of _compute_irr_multiple, as 1 / RelTolInverse
RelTolInverse == 100000

\* math.isclose(x, 1, rel_tol=1e-5): |x - 1| <= 1e-5 * max(|x|, 1), which for
\* x = n / d is |n - d| * 100000 <= max(|n|, d)
is_close_to_one(x) ==
    Abs(x.n - x.d) <= Max(Abs(x.n), x.d) \div RelTolInverse

\* LP and GP effective share of _compute_irr_multiple
effective_shares(trs, deal, lp, gp) ==
    LET deal_distr == RSum(Positives(deal))
        lp_distr == RSum(Positives(lp))
        gp_distr == RSum(Positives(gp))
    IN  IF Len(deal) = 1
        THEN <<trs[1].lp_dist_ratio, RSub(One, trs[1].lp_dist_ratio)>>
        ELSE IF deal_distr.n > 0
        THEN <<RDiv(lp_distr, deal_distr), RDiv(gp_distr, deal_distr)>>
        ELSE <<trs[1].lp_dist_ratio, RSub(One, trs[1].lp_dist_ratio)>>

\* _compute_irr_multiple without the XIRR and Multiple entries (the Newton
\* iteration and the float infinity are outside this model);
\* raises |-> "AssertionError" when the assertion on the shares fails
compute_irr_multiple(trs, deal, lp, gp) ==
    LET shares == effective_shares(trs, deal, lp, gp)
    IN  IF ~is_close_to_one(RAdd(shares[1], shares[2]))
        THEN [raises |-> "AssertionError"]
        ELSE [raises |-> "",
              DealProfit |-> RSum(deal), LPProfit |-> RSum(lp),
              GPProfit |-> RSum(gp),
              DealContrib |-> RNeg(RSum(Negatives(deal))),
              LPContrib |-> RNeg(RSum(Negatives(lp))),
              GPContrib |-> RNeg(RSum(Negatives(gp))),
              DealDistr |-> RSum(Positives(deal)),
              LPDistr |-> RSum(Positives(lp)),
              GPDistr |-> RSum(Positives(gp)),
              LPEffectiveShare |-> shares[1],
              GPEffectiveShare |-> shares[2]]

\* the <<deal_dates, deal_cash_flows>> the constructor stores, for every
\* pair of input lists
ConstructedSeries ==
    { sum_cash_flows_by_date([k \in 1..Len(raw) |-> raw[k][1]],
                             [k \in 1..Len(raw) |-> raw[k][2]]) :
        raw \in SeqsUpTo(FlowDates \X FlowAmounts, MaxFlows) }

\* the attributes of a CarriedInterest just constructed from the tier list
\* trs and the summed series
CarryConstructed(trs, summed) ==
    /\ tiers = trs
    /\ deal_dates = summed[1]
    /\ deal_cash_flows = summed[2]
    /\ lp_cash_flows = [k \in 1..Len(summed[2]) |-> Zero]
    /\ gp_cash_flows = [k \in 1..Len(summed[2]) |-> Zero]
    /\ metrics = <<>>
    /\ cstatus = "constructed"

\* CarriedInterest.__init__
CarryInit ==
    \E trs \in SeqsUpTo(TierChoices, MaxTiers) \ {<<>>},
       summed \in ConstructedSeries :
        CarryConstructed(trs, summed) /\ given = <<>>

\* single-tier waterfalls over capital calls of 1000 and distributions of
\* 200 and 1200
SingleTierChoices ==
    { TierParams(Rat(4, 5), Zero), TierParams(Rat(4, 5), Rat(1, 10)),
      TierParams(Rat(1, 2), Zero), TierParams(One, Zero) }

SingleTierAmounts == {0 - 1000, 200, 1200}

SingleTierSeries ==
    { sum_cash_flows_by_date([k \in 1..Len(raw) |-> raw[k][1]],
                             [k \in 1..Len(raw) |-> raw[k][2]]) :
        raw \in SeqsUpTo(FlowDates \X SingleTierAmounts, MaxFlows) }

SingleTierInit ==
    \E tier \in SingleTierChoices, summed \in SingleTierSeries :
        CarryConstructed(<<tier>>, summed) /\ given = <<>>

\* calculate() on an object with an empty series
CalculateEmpty ==
    /\ cstatus # "none"
    /\ deal_dates = <<>> \/ deal_cash_flows = <<>>
    /\ metrics' = [LPEffectiveShare |-> tiers[1].lp_dist_ratio]
    /\ cstatus' = "returned"
    /\ UNCHANGED <<tiers, deal_dates, deal_cash_flows, lp_cash_flows,
                   gp_cash_flows, given, loanVars, propVars>>

\* calculate() on an object with a non-empty series
Calculate ==
    /\ cstatus # "none"
    /\ deal_dates # <<>> /\ deal_cash_flows # <<>>
    /\ \E init \in {initial_allocation(tiers, deal_cash_flows)} :
       \E dist \in {tier_distribution(tiers, deal_dates, deal_cash_flows,
                                      init[1], init[2])} :
       \E res \in {compute_irr_multiple(tiers, deal_cash_flows,
                                        dist[1], dist[2])} :
          /\ lp_cash_flows' = dist[1]
          /\ gp_cash_flows' = dist[2]
          /\ IF res.raises # ""
             THEN cstatus' = res.raises /\ UNCHANGED metrics
             ELSE cstatus' = "returned" /\ metrics' = res
    /\ UNCHANGED <<tiers, deal_dates, deal_cash_flows, given, loanVars,
                   propVars>>

CarryNext == Calculate \/ CalculateEmpty

\* a CarriedInterest has been constructed, and nothing else
InitCarry == CarryInit /\ LoanIdle /\ PropIdle

\* one waterfall object, calculate() called any number of times
SpecCarry == InitCarry /\ [][CarryNext]_vars

\* calculate() on an object whose allocations are lp and gp: the allocations
\* it leaves and what it returns
calculate(trs, dates, deal, lp, gp) ==
    IF dates = <<>> \/ deal = <<>>
    THEN [lp_cash_flows |-> lp, gp_cash_flows |-> gp,
          result |-> [raises |-> "",
                      LPEffectiveShare |-> trs[1].lp_dist_ratio]]
    ELSE LET init == initial_allocation(trs, deal)
             dist == tier_distribution(trs, dates, deal, init[1], init[2])
         IN  [lp_cash_flows |-> dist[1], gp_cash_flows |-> dist[2],
              result |-> compute_irr_multiple(trs, deal, dist[1], dist[2])]

\* a call of calculate(), directly or through get_lp_effective_share(); the
\* caller keeps what each call returned and the allocations it left
Called(name, o) ==
    /\ cstatus # "none"
    /\ Len(given) < MaxOps
    /\ lp_cash_flows' = o.lp_cash_flows
    /\ gp_cash_flows' = o.gp_cash_flows
    /\ IF o.result.raises # ""
       THEN cstatus' = o.result.raises /\ UNCHANGED metrics
       ELSE cstatus' = "returned" /\ metrics' = o.result
    /\ given' = Append(given,
                  [call |-> name,
                   returned |-> IF o.result.raises # "" THEN o.result
                                ELSE IF name = "calculate" THEN o.result
                                ELSE o.result.LPEffectiveShare,
                   lp_cash_flows |-> o.lp_cash_flows,
                   gp_cash_flows |-> o.gp_cash_flows])
    /\ UNCHANGED <<tiers, deal_dates, deal_cash_flows, loanVars, propVars>>

CallCalculate ==
    \E o \in {calculate(tiers, deal_dates, deal_cash_flows, lp_cash_flows,
                        gp_cash_flows)} : Called("calculate", o)

GetLpEffectiveShare ==
    \E o \in {calculate(tiers, deal_dates, deal_cash_flows, lp_cash_flows,
                        gp_cash_flows)} : Called("get_lp_effective_share", o)

RepeatedNext == CallCalculate \/ GetLpEffectiveShare

\* one waterfall object, calculate() and get_lp_effective_share() called in
\* any order
SpecRepeated == InitCarry /\ [][RepeatedNext]_vars

\* a single-tier CarriedInterest has been constructed, and nothing else
InitSingleTier == SingleTierInit /\ LoanIdle /\ PropIdle

\* one single-tier waterfall, calculate() called any number of times
SpecSingleTier == InitSingleTier /\ [][CarryNext]_vars

\* the cash flows a caller may pass, None and NaN among them
GivenAmounts == FlowAmounts \cup {NoneFlow, NaN}

Given(dates, cash_flows) ==
    [deal_dates |-> dates, deal_cash_flows |-> cash_flows]

\* a caller holds two lists of the same length and one tier, and has not
\* called the constructor yet
GivenInit ==
    \E raw \in SeqsUpTo(FlowDates \X GivenAmounts, MaxFlows) :
        /\ given = Given([k \in 1..Len(raw) |-> raw[k][1]],
                         [k \in 1..Len(raw) |-> raw[k][2]])
        /\ tiers = <<TierParams(Rat(4, 5), Zero)>>
        /\ deal_dates = <<>> /\ deal_cash_flows = <<>>
        /\ lp_cash_flows = <<>> /\ gp_cash_flows = <<>>
        /\ metrics = <<>> /\ cstatus = "given"

\* CarriedInterest(given.deal_dates, given.deal_cash_flows, tiers)
Construct ==
    /\ cstatus = "given"
    /\ \E summed \in {sum_cash_flows_by_date(given.deal_dates,
                                             given.deal_cash_flows)} :
          /\ deal_dates' = summed[1]
          /\ deal_cash_flows' = summed[2]
          /\ lp_cash_flows' = [k \in 1..Len(summed[2]) |-> Zero]
          /\ gp_cash_flows' = [k \in 1..Len(summed[2]) |-> Zero]
    /\ cstatus' = "constructed"
    /\ UNCHANGED <<tiers, metrics, given, loanVars, propVars>>

\* the caller takes the stored series of the object as the arguments of the
\* next constructor call
Resubmit ==
    /\ cstatus = "constructed"
    /\ given' = Given(deal_dates,
                      [k \in 1..Len(deal_cash_flows) |-> deal_cash_flows[k].n])
    /\ given' # given
    /\ cstatus' = "given"
    /\ UNCHANGED <<tiers, deal_dates, deal_cash_flows, lp_cash_flows,
                   gp_cash_flows, metrics, loanVars, propVars>>

GivenNext == Construct \/ Resubmit

InitGiven == GivenInit /\ LoanIdle /\ PropIdle

\* constructor calls on given lists, and on the series a constructor stored
SpecCanonical == InitGiven /\ [][GivenNext]_vars

\* the rates xnpv is called with
Rates == {Zero, Rat(1, 4), One, RNeg(One)}

\* round(x, 10): the model's rates and whole-year dates give values with at
\* most ten decimals, which round(x, 10) returns unchanged
round_10(x) == x

RECURSIVE Discounted(_, _, _, _)
Discounted(rate, cash_flows, dates, k) ==
    IF k = 0 THEN Zero
    ELSE RAdd(Discounted(rate, cash_flows, dates, k - 1),
              RDiv(cash_flows[k],
                   RPow(RAdd(One, rate),
                        day_count_fraction(dates[k], dates[1]))))

\* CarriedInterest.xnpv: the exception raised, or float('inf'), or the value
xnpv(rate, cash_flows, dates) ==
    IF RLe(rate, RNeg(One))
    THEN [raises |-> "", inf |-> TRUE, value |-> Zero]
    ELSE IF dates = <<>>
    THEN [raises |-> "IndexError", inf |-> FALSE, value |-> Zero]
    ELSE [raises |-> "", inf |-> FALSE,
          value |-> round_10(Discounted(rate, cash_flows, dates,
                                        Min(Len(cash_flows), Len(dates))))]

\* what scipy's newton(npv, guess, tol=1e-12) can end with: the rate it
\* converged to, or a RuntimeError when it failed to converge
Converged(irr) == [raises |-> "", irr |-> irr]
NewtonOutcomes ==
    { Converged(irr) : irr \in Rates \ {RNeg(One)} }
    \cup { [raises |-> "RuntimeError", irr |-> Zero] }

\* xirr without the except clause
xirr_propagating(cash_flows, dates, newton) ==
    IF cash_flows = <<>> \/ dates = <<>>
    THEN [raises |-> "", value |-> Zero]
    ELSE [raises |-> newton.raises, value |-> round_10(newton.irr)]

\* CarriedInterest.xirr, for the outcome newton of the solver
xirr(cash_flows, dates, newton) ==
    IF cash_flows = <<>> \/ dates = <<>>
    THEN [raises |-> "", value |-> Zero]
    ELSE IF newton.raises = "RuntimeError"
    THEN [raises |-> "", value |-> round_10(Zero)]
    ELSE [raises |-> "", value |-> round_10(newton.irr)]

\* the flow lists of the object that xnpv and xirr are called with
FlowLists == {"deal_cash_flows", "lp_cash_flows", "gp_cash_flows"}

FlowList(name) ==
    IF name = "deal_cash_flows" THEN deal_cash_flows
    ELSE IF name = "lp_cash_flows" THEN lp_cash_flows
    ELSE gp_cash_flows

\* self.xnpv(rate, self.<name>, self.deal_dates)
Xnpv(rate, name) ==
    /\ cstatus # "none"
    /\ \E r \in {xnpv(rate, FlowList(name), deal_dates)} :
          /\ metrics' = [call |-> "xnpv", rate |-> rate, flows |-> name,
                         inf |-> r.inf, value |-> r.value]
          /\ cstatus' = IF r.raises # "" THEN r.raises ELSE "returned"
    /\ UNCHANGED <<tiers, deal_dates, deal_cash_flows, lp_cash_flows,
                   gp_cash_flows, given, loanVars, propVars>>

\* self.xirr(self.<name>, self.deal_dates), the solver ending with newton
Xirr(name, newton) ==
    /\ cstatus # "none"
    /\ \E r \in {xirr(FlowList(name), deal_dates, newton)} :
          /\ metrics' = [call |-> "xirr", flows |-> name, newton |-> newton,
                         value |-> r.value]
          /\ cstatus' = IF r.raises # "" THEN r.raises ELSE "returned"
    /\ UNCHANGED <<tiers, deal_dates, deal_cash_flows, lp_cash_flows,
                   gp_cash_flows, given, loanVars, propVars>>

RatesNext ==
    \/ Calculate
    \/ CalculateEmpty
    \/ \E rate \in Rates, name \in FlowLists : Xnpv(rate, name)
    \/ \E name \in FlowLists, newton \in NewtonOutcomes : Xirr(name, newton)

\* one single-tier waterfall object; calculate(), xnpv() and xirr() called
\* any number of times
SpecRates == InitSingleTier /\ [][RatesNext]_vars

\* --------------------------------------------------- CarriedInterest claims
\* the tier (0.8, hurdle 0) over the flows -1000 at t0, +1200 at t1
IsSingleTierScenario ==
    /\ tiers = <<TierParams(Rat(4, 5), Zero)>>
    /\ deal_dates = <<0, 1>>
    /\ deal_cash_flows = <<Rat(0 - 1000, 1), Rat(1200, 1)>>

\* C12: in a single-tier waterfall every period's LP flow is the deal flow
\* times lp_dist_ratio (and the GP flow the deal flow times the rest); for
\* the tier (0.8, hurdle 0) over (-1000, +1200) the LP contributes 800 and
\* receives 960, the GP contributes 200 and receives 240, and LP Effective
\* Share is 0.8.
C12_SingleTier ==
    (cstatus = "returned" /\ deal_cash_flows # <<>>) =>
        /\ \A i \in 1..Len(deal_cash_flows) :
              /\ lp_cash_flows[i] =
                    RMul(deal_cash_flows[i], tiers[1].lp_dist_ratio)
              /\ gp_cash_flows[i] =
                    RMul(deal_cash_flows[i],
                         RSub(One, tiers[1].lp_dist_ratio))
        /\ IsSingleTierScenario =>
              /\ lp_cash_flows = <<Rat(0 - 800, 1), Rat(960, 1)>>
              /\ gp_cash_flows = <<Rat(0 - 200, 1), Rat(240, 1)>>
              /\ metrics.LPContrib = Rat(800, 1)
              /\ metrics.LPDistr = Rat(960, 1)
              /\ metrics.GPContrib = Rat(200, 1)
              /\ metrics.GPDistr = Rat(240, 1)
              /\ metrics.LPEffectiveShare = Rat(4, 5)

\* C12 witness: calculate() returned for the scenario, the LP receiving 960
\* of the 1200.
C12_Witness ==
    /\ cstatus = "returned" /\ IsSingleTierScenario
    /\ lp_cash_flows[2] = Rat(960, 1)

\* C2: after calculate() each period's LP flow plus GP flow equals the deal
\* flow of that period.
C2_Conservation ==
    cstatus \in {"returned", "AssertionError"} =>
        \A i \in 1..Len(deal_cash_flows) :
            RAdd(lp_cash_flows[i], gp_cash_flows[i]) = deal_cash_flows[i]

\* C2 witness: a two-tier waterfall with different ratios was evaluated over
\* a capital call and a distribution that both tiers and the residual split
\* shared out.
C2_Witness ==
    /\ cstatus = "returned"
    /\ Len(tiers) = 2 /\ tiers[1] # tiers[2]
    /\ \E i \in 1..Len(deal_cash_flows) : deal_cash_flows[i].n < 0
    /\ \E i \in 1..Len(deal_cash_flows) :
          /\ deal_cash_flows[i].n > 0
          /\ lp_cash_flows[i].n > 0 /\ gp_cash_flows[i].n > 0
          /\ lp_cash_flows[i] # RMul(deal_cash_flows[i], tiers[1].lp_dist_ratio)
          /\ lp_cash_flows[i] # RMul(deal_cash_flows[i], tiers[2].lp_dist_ratio)

\* C3: for every non-empty cash-flow series and every tier list calculate()
\* returns shares that sum to 1: the assertion of _compute_irr_multiple
\* never fails.
C3_Claim ==
    /\ cstatus # "AssertionError"
    /\ (cstatus = "returned" /\ deal_cash_flows # <<>>) =>
          is_close_to_one(RAdd(metrics.LPEffectiveShare,
                               metrics.GPEffectiveShare))

\* C28: in every period with a positive deal cash flow, whatever the tier
\* list and whatever earlier periods distributed, the LP allocation and the
\* GP allocation both lie between 0 and the deal flow of the period.
C28_Claim ==
    cstatus \in {"returned", "AssertionError"} =>
        \A i \in 1..Len(deal_cash_flows) :
            deal_cash_flows[i].n > 0 =>
                /\ RLe(Zero, lp_cash_flows[i])
                /\ RLe(lp_cash_flows[i], deal_cash_flows[i])
                /\ RLe(Zero, gp_cash_flows[i])
                /\ RLe(gp_cash_flows[i], deal_cash_flows[i])

\* C30: calculate() is idempotent: every call on the same object, direct or
\* through get_lp_effective_share(), returns what the first call of its kind
\* returned, reports the LP effective share of the first call, and leaves
\* lp_cash_flows and gp_cash_flows as the first call left them.
C30_Idempotent ==
    \A i \in 1..Len(given) :
        /\ given[i].lp_cash_flows = given[1].lp_cash_flows
        /\ given[i].gp_cash_flows = given[1].gp_cash_flows
        /\ given[i].call = given[1].call
              => given[i].returned = given[1].returned
        /\ (given[1].returned # [raises |-> "AssertionError"]
            /\ given[i].call # given[1].call)
              => /\ given[i].returned # [raises |-> "AssertionError"]
                 /\ LET share(g) == IF g.call = "calculate"
                                    THEN g.returned.LPEffectiveShare
                                    ELSE g.returned
                    IN  share(given[i]) = share(given[1])

\* C30 witness: calculate() and then get_lp_effective_share() were called on
\* a two-tier waterfall with a capital call and a distribution that LP and
\* GP share.
C30_Witness ==
    /\ Len(given) = 2
    /\ given[1].call = "calculate"
    /\ given[2].call = "get_lp_effective_share"
    /\ cstatus = "returned"
    /\ Len(tiers) = 2 /\ tiers[1] # tiers[2]
    /\ \E i \in 1..Len(deal_cash_flows) :
          deal_cash_flows[i].n < 0 /\ lp_cash_flows[i].n < 0
    /\ \E i \in 1..Len(deal_cash_flows) :
          /\ deal_cash_flows[i].n > 0
          /\ lp_cash_flows[i].n > 0 /\ gp_cash_flows[i].n > 0

\* C30 witness, the same call twice
C30_WitnessTwice ==
    /\ Len(given) = 2
    /\ given[1].call = "calculate" /\ given[2].call = "calculate"
    /\ cstatus = "returned"
    /\ \E i \in 1..Len(deal_cash_flows) : lp_cash_flows[i].n > 0

\* ---------------------------------------- Loan: scheduled principal
\* the annuity payment on the original loan amount over amortizing_periods
\* months at rate / 12 per month, loan_amount / n at rate 0
AnnuityPayment ==
    LET n == terms.amortizing_periods
        monthly_rate == Rat(terms.rate[1], 12 * terms.rate[2])
        up == RPow(RAdd(One, monthly_rate), n)
    IN  IF monthly_rate = Zero THEN Rat(terms.loan_amount, n)
        ELSE RDiv(RMul(Rat(terms.loan_amount, 1), RMul(monthly_rate, up)),
                  RSub(up, One))

\* the level payment fixed at construction is the annuity payment in whole
\* currency units, and 0 on a loan that does not amortize
LevelPaymentIsAnnuity ==
    IF terms.amortizing_periods = 0 THEN terms.amortizing_payment = 0
    ELSE /\ RLe(Rat(terms.amortizing_payment, 1), AnnuityPayment)
         /\ ~RLe(Rat(terms.amortizing_payment + 1, 1), AnnuityPayment)

\* C29: in every generated row 0 <= scheduled principal <= beginning
\* balance; it is 0 in the funding row and in the interest-only rows after
\* it, and min(max(0, level payment - interest), beginning balance) in every
\* other row, the level payment being the annuity payment fixed at
\* construction on the original loan amount.
C29_ScheduledPrincipal ==
    generated =>
        /\ LevelPaymentIsAnnuity
        /\ \A m \in DOMAIN schedule :
              LET r == schedule[m]
              IN  /\ 0 <= r.scheduled_principal_payment
                  /\ r.scheduled_principal_payment <= r.beginning_balance
                  /\ r.scheduled_principal_payment =
                        IF m <= terms.interest_only_periods THEN 0
                        ELSE Min(Max(0, terms.amortizing_payment
                                        - r.interest_payment),
                                 r.beginning_balance)

\* C29 witness: a generated schedule with an interest-only row on a positive
\* balance, a row that pays level payment - interest, and a row whose
\* scheduled principal is limited by its beginning balance.
C29_Witness ==
    /\ generated
    /\ \E m \in DOMAIN schedule :
          /\ 1 <= m /\ m <= terms.interest_only_periods
          /\ schedule[m].beginning_balance > 0
          /\ schedule[m].scheduled_principal_payment = 0
    /\ \E m \in DOMAIN schedule :
          /\ schedule[m].interest_payment > 0
          /\ schedule[m].scheduled_principal_payment =
                terms.amortizing_payment - schedule[m].interest_payment
          /\ schedule[m].scheduled_principal_payment
                < schedule[m].beginning_balance

\* C29, the limit: a row whose level payment less interest exceeds its
\* beginning balance pays the beginning balance.
C29_WitnessLimited ==
    /\ generated
    /\ \E m \in DOMAIN schedule :
          /\ schedule[m].beginning_balance > 0
          /\ schedule[m].scheduled_principal_payment
                = schedule[m].beginning_balance
          /\ terms.amortizing_payment - schedule[m].interest_payment
                > schedule[m].beginning_balance

\* ================================================================= Property
\* last day of the month of input_date
get_last_day_of_month(input_date) == 2 * (input_date \div 2) + 1

\* input_date + relativedelta(months=1)
plus_one_month(input_date) == input_date + 2

\* list.sort(key=lambda x: x[0]): stable, by date only
sort_by_date(events) ==
    LET n == Len(events)
        rank(i) == Cardinality({ j \in 1..n :
                        \/ events[j][1] < events[i][1]
                        \/ events[j][1] = events[i][1] /\ j <= i })
    IN  [k \in 1..n |-> events[CHOOSE i \in 1..n : rank(i) = k]]

\* list.sort() of (date, share) tuples: by date, then by share
sort_tuples(events) ==
    LET n == Len(events)
        less(a, b) == a[1] < b[1] \/ (a[1] = b[1] /\ a[2] < b[2])
        rank(i) == Cardinality({ j \in 1..n :
                        \/ less(events[j], events[i])
                        \/ events[j] = events[i] /\ j <= i })
    IN  [k \in 1..n |-> events[CHOOSE i \in 1..n : rank(i) = k]]

\* Property.process_ownership_events: the event list rebuilt from the
\* attributes of the property
process_ownership_events(p) ==
    LET seeded == sort_by_date(
            << <<p.acquisition_date, p.ownership>>,
               <<get_last_day_of_month(plus_one_month(p.disposition_date)),
                 0>> >>)
        has_buyout == p.partner_buyout_date # NoDate
                        /\ p.partner_buyout_percent # 0
        after_buyout == IF has_buyout
                        THEN Min(p.ownership + p.partner_buyout_percent, 100)
                        ELSE p.ownership
        with_buyout ==
            IF has_buyout
            THEN Append(seeded,
                        <<get_last_day_of_month(p.partner_buyout_date),
                          after_buyout>>)
            ELSE seeded
        has_sale == p.partial_sale_date # NoDate /\ p.partial_sale_percent # 0
        with_sale ==
            IF has_sale
            THEN Append(with_buyout,
                        <<get_last_day_of_month(
                              plus_one_month(p.partial_sale_date)),
                          Max(after_buyout - p.partial_sale_percent, 0)>>)
            ELSE with_buyout
        sorted == sort_by_date(with_sale)
    IN  [k \in 1..Len(sorted) |->
            <<get_last_day_of_month(sorted[k][1]), sorted[k][2]>>]

\* the backwards scan of get_ownership_share over the processed events
RECURSIVE ScanReversed(_, _, _)
ScanReversed(changes, k, query_date) ==
    IF k = 0 THEN 0
    ELSE IF query_date >= changes[k][1] THEN changes[k][2]
    ELSE ScanReversed(changes, k - 1, query_date)

\* Property.get_ownership_share: the processed events and the share returned
get_ownership_share(p, query_date) ==
    LET changes == process_ownership_events(p)
    IN  [ownership_changes |-> changes,
         value |-> ScanReversed(changes, Len(changes), query_date)]

\* Property.add_ownership_change: the event list after the call
add_ownership_change(changes, change_date, new_ownership) ==
    sort_tuples(Append(changes,
                       <<get_last_day_of_month(change_date), new_ownership>>))

\* Property.get_month_list from the analysis date: the window starts in
\* month 0 and holds the month-end dates of MaxAnalysisMonths months
month_list == [i \in 1..MaxAnalysisMonths |-> 2 * (i - 1) + 1]

\* the while loop of generate_ownership_series with a strict comparison
RECURSIVE apply_changes_before(_, _, _)
apply_changes_before(changes, month, current_ownership) ==
    IF changes # <<>> /\ changes[1][1] < month
    THEN apply_changes_before(Tail(changes), month, changes[1][2])
    ELSE [changes |-> changes, current_ownership |-> current_ownership]

\* the while loop of generate_ownership_series: the changes dated on or
\* before month are popped, the last one popped gives the current ownership
RECURSIVE apply_changes(_, _, _)
apply_changes(changes, month, current_ownership) ==
    IF changes # <<>> /\ changes[1][1] <= month
    THEN apply_changes(Tail(changes), month, changes[1][2])
    ELSE [changes |-> changes, current_ownership |-> current_ownership]

\* the loop of generate_ownership_series over month_list from index i
RECURSIVE SweepMonths(_, _, _, _, _)
SweepMonths(p, i, changes, current_ownership, ownership_series) ==
    IF i > Len(month_list) THEN ownership_series
    ELSE IF month_list[i] < p.acquisition_date
    THEN SweepMonths(p, i + 1, changes, current_ownership, ownership_series)
    ELSE LET a == apply_changes(changes, month_list[i], current_ownership)
         IN  SweepMonths(p, i + 1, a.changes, a.current_ownership,
                         [m \in DOMAIN ownership_series \cup {month_list[i]} |->
                             IF m = month_list[i] THEN a.current_ownership
                             ELSE ownership_series[m]])

\* Property.generate_ownership_series: the processed events and the series
\* returned, a dict from month to share
generate_ownership_series(p) ==
    LET changes == process_ownership_events(p)
    IN  [ownership_changes |-> changes,
         value |-> SweepMonths(p, 1, sort_by_date(changes), 0, <<>>)]

\* the dates of the modelled months, and the dates a caller may query
PropertyDates == 0 .. 2 * MaxMonths - 1
QueryDates == 0 .. 2 * MaxMonths + 1

Ownerships == {50, 100}
BuyoutPercents == {0, 30}
SalePercents == {0, 60}

Call(name, d, v) == [call |-> name, date |-> d, value |-> v]

\* Property.__init__ (the ownership part): both dates are set to their
\* month-ends, the buyout and the sale are stored as given, and the event
\* list is seeded and then processed
PropertyInit ==
    \E acquisition_date \in PropertyDates,
       disposition_date \in PropertyDates,
       ownership \in Ownerships,
       partner_buyout_date \in {NoDate} \cup PropertyDates,
       partner_buyout_percent \in BuyoutPercents,
       partial_sale_date \in {NoDate} \cup PropertyDates,
       partial_sale_percent \in SalePercents :
        /\ acquisition_date <= disposition_date
        /\ partner_buyout_date = NoDate => partner_buyout_percent = 0
        /\ partial_sale_date = NoDate => partial_sale_percent = 0
        /\ property =
             [acquisition_date |-> get_last_day_of_month(acquisition_date),
              disposition_date |-> get_last_day_of_month(disposition_date),
              ownership |-> ownership,
              partner_buyout_date |-> partner_buyout_date,
              partner_buyout_percent |-> partner_buyout_percent,
              partial_sale_date |-> partial_sale_date,
              partial_sale_percent |-> partial_sale_percent]
        /\ ownership_changes = process_ownership_events(property)
        /\ pcall = Call("__init__", NoDate, 0)
        /\ property_ops = 0
        /\ market_values = <<>>

GetOwnershipShare(query_date) ==
    /\ property_ops < MaxOps
    /\ \E r \in {get_ownership_share(property, query_date)} :
          /\ ownership_changes' = r.ownership_changes
          /\ pcall' = Call("get_ownership_share", query_date, r.value)
    /\ property_ops' = property_ops + 1
    /\ UNCHANGED <<property, market_values, loanVars, carryVars>>

AddOwnershipChange(change_date, new_ownership) ==
    /\ property_ops < MaxOps
    /\ ownership_changes' =
          add_ownership_change(ownership_changes, change_date, new_ownership)
    /\ pcall' = Call("add_ownership_change", NoDate, 0)
    /\ property_ops' = property_ops + 1
    /\ UNCHANGED <<property, market_values, loanVars, carryVars>>

AddPartialSale(partial_date, sale_percent) ==
    /\ property_ops < MaxOps
    /\ property' = [property EXCEPT !.partial_sale_date = partial_date,
                                    !.partial_sale_percent = sale_percent]
    /\ ownership_changes' = process_ownership_events(property')
    /\ pcall' = Call("add_partial_sale", NoDate, 0)
    /\ property_ops' = property_ops + 1
    /\ UNCHANGED <<market_values, loanVars, carryVars>>

AddPartnerBuyout(buyout_date, buyout_percent) ==
    /\ property_ops < MaxOps
    /\ property' = [property EXCEPT !.partner_buyout_date = buyout_date,
                                    !.partner_buyout_percent = buyout_percent]
    /\ ownership_changes' = process_ownership_events(property')
    /\ pcall' = Call("add_partner_buyout", NoDate, 0)
    /\ property_ops' = property_ops + 1
    /\ UNCHANGED <<market_values, loanVars, carryVars>>

GenerateOwnershipSeries ==
    /\ property_ops < MaxOps
    /\ \E r \in {generate_ownership_series(property)} :
          /\ ownership_changes' = r.ownership_changes
          /\ pcall' = Call("generate_ownership_series", NoDate, r.value)
    /\ property_ops' = property_ops + 1
    /\ UNCHANGED <<property, market_values, loanVars, carryVars>>

PropertyNext ==
    \/ \E d \in QueryDates : GetOwnershipShare(d)
    \/ GenerateOwnershipSeries
    \/ \E d \in PropertyDates, o \in Ownerships : AddOwnershipChange(d, o)
    \/ \E d \in PropertyDates, pct \in SalePercents : AddPartialSale(d, pct)
    \/ \E d \in PropertyDates, pct \in BuyoutPercents :
          AddPartnerBuyout(d, pct)

\* a Property has been constructed, and nothing else
InitProperty == PropertyInit /\ LoanIdle /\ CarryIdle

\* one property, any sequence of ownership calls
SpecOwnership == InitProperty /\ [][PropertyNext]_vars

\* the entries of the given lists that are retained: the date is present and
\* the amount is neither None nor NaN
Retained ==
    { j \in 1..Len(given.deal_dates) :
        /\ given.deal_dates[j] # NoDate
        /\ given.deal_cash_flows[j] # NoneFlow
        /\ given.deal_cash_flows[j] # NaN }

RECURSIVE GivenTotal(_)
GivenTotal(entries) ==
    IF entries = {} THEN 0
    ELSE LET j == CHOOSE x \in entries : TRUE
         IN  given.deal_cash_flows[j] + GivenTotal(entries \ {j})

RECURSIVE StoredTotal(_)
StoredTotal(k) ==
    IF k = 0 THEN 0 ELSE deal_cash_flows[k].n + StoredTotal(k - 1)

\* the given lists are a canonical series: dates strictly increasing, no
\* date missing, no amount None or NaN
GivenIsCanonical ==
    /\ Retained = 1..Len(given.deal_dates)
    /\ \A j \in 1..Len(given.deal_dates) - 1 :
          given.deal_dates[j] < given.deal_dates[j + 1]

\* C18: the series the constructor stores has strictly increasing dates,
\* exactly the dates of the retained entries, at each date the sum of the
\* retained amounts given for it, and so the total of the retained amounts; a
\* canonical series is stored unchanged
C18_Canonical ==
    cstatus = "constructed" =>
        /\ Len(deal_dates) = Len(deal_cash_flows)
        /\ \A k \in 1..Len(deal_dates) - 1 : deal_dates[k] < deal_dates[k + 1]
        /\ { deal_dates[k] : k \in 1..Len(deal_dates) }
              = { given.deal_dates[j] : j \in Retained }
        /\ \A k \in 1..Len(deal_dates) :
              /\ deal_cash_flows[k].d = 1
              /\ deal_cash_flows[k].n =
                    GivenTotal({ j \in Retained :
                                    given.deal_dates[j] = deal_dates[k] })
        /\ StoredTotal(Len(deal_cash_flows)) = GivenTotal(Retained)
        /\ GivenIsCanonical =>
              /\ deal_dates = given.deal_dates
              /\ \A k \in 1..Len(deal_dates) :
                    deal_cash_flows[k].n = given.deal_cash_flows[k]

\* a series was stored that merged two amounts of one date and dropped an
\* entry without date, a None amount or a NaN amount
C18_Witness ==
    /\ cstatus = "constructed"
    /\ Len(given.deal_dates) = 3
    /\ Len(deal_dates) = 1
    /\ Cardinality(Retained) = 2
    /\ \E j \in 1..3 : given.deal_cash_flows[j] \in {NoneFlow, NaN}

\* C19: xnpv(0, flows, dates) returns the plain sum of the flows
C19_Claim ==
    ("call" \in DOMAIN metrics /\ metrics.call = "xnpv"
     /\ metrics.rate = Zero) =>
        /\ cstatus = "returned"
        /\ ~metrics.inf
        /\ metrics.value = RSum(FlowList(metrics.flows))

\* C19 for the series that have at least one flow
C19_NonEmpty ==
    ("call" \in DOMAIN metrics /\ metrics.call = "xnpv"
     /\ metrics.rate = Zero /\ deal_dates # <<>>) =>
        /\ cstatus = "returned"
        /\ ~metrics.inf
        /\ metrics.value = RSum(FlowList(metrics.flows))

\* C20: xirr raises nothing and returns a number: 0 for an empty flow or
\* date list, 0 when the solver raised RuntimeError, the rate the solver
\* converged to otherwise
C20_XirrReturns ==
    ("call" \in DOMAIN metrics /\ metrics.call = "xirr") =>
        /\ cstatus = "returned"
        /\ (FlowList(metrics.flows) = <<>> \/ deal_dates = <<>>) =>
              metrics.value = Zero
        /\ metrics.newton.raises = "RuntimeError" => metrics.value = Zero
        /\ (metrics.newton.raises = "" /\ deal_dates # <<>>) =>
              metrics.value = metrics.newton.irr

\* xirr was called on the LP flows of a calculated waterfall with a capital
\* call and a distribution, and the solver failed to converge
C20_Witness ==
    /\ "call" \in DOMAIN metrics /\ metrics.call = "xirr"
    /\ metrics.flows = "lp_cash_flows"
    /\ metrics.newton.raises = "RuntimeError"
    /\ \E k \in 1..Len(lp_cash_flows) : lp_cash_flows[k].n < 0
    /\ \E k \in 1..Len(lp_cash_flows) : lp_cash_flows[k].n > 0

\* ----------------------------------------------------------- Property claims
\* a buyout or partial sale, where one is set, is dated within the holding
\* period, from the acquisition month to the disposition month
EventsInHoldingPeriod ==
    /\ property.partner_buyout_date # NoDate =>
          /\ property.partner_buyout_date > property.acquisition_date - 2
          /\ property.partner_buyout_date <= property.disposition_date
    /\ property.partial_sale_date # NoDate =>
          /\ property.partial_sale_date > property.acquisition_date - 2
          /\ property.partial_sale_date <= property.disposition_date

\* C10: get_ownership_share returns 0 for a month-end before the acquisition
\* month, the initial ownership on the acquisition month-end and 0 on the
\* month-end following disposition, whatever buyout and partial sale the
\* property carries (here: even only those dated in the holding period).
C10_Claim ==
    (pcall.call = "get_ownership_share" /\ EventsInHoldingPeriod) =>
        /\ pcall.date < property.acquisition_date => pcall.value = 0
        /\ pcall.date = property.acquisition_date =>
              pcall.value = property.ownership
        /\ pcall.date = get_last_day_of_month(
                            plus_one_month(property.disposition_date)) =>
              pcall.value = 0

\* an event of the list that add_ownership_change appended: it is not one of
\* the events derived from the attributes of the property
IsAddedEvent(e) ==
    \A k \in 1..Len(process_ownership_events(property)) :
        process_ownership_events(property)[k] # e

\* no event of the list other than e is dated from the date of e to date d
InForceAt(e, d) ==
    /\ e[1] <= d
    /\ \A k \in 1..Len(ownership_changes) :
          ownership_changes[k] # e =>
              (ownership_changes[k][1] < e[1] \/ ownership_changes[k][1] > d)

\* C16: an event appended by add_ownership_change is part of the timeline:
\* a later get_ownership_share(d), with d on or after the date of the event
\* and before the next event, returns its share, and a later
\* generate_ownership_series has its share on those months
C16_Claim ==
    [][\A k \in 1..Len(ownership_changes) :
          LET e == ownership_changes[k]
          IN  IsAddedEvent(e) =>
                /\ (pcall'.call = "get_ownership_share"
                    /\ InForceAt(e, pcall'.date)) =>
                      pcall'.value = e[2]
                /\ pcall'.call = "generate_ownership_series" =>
                      \A m \in DOMAIN pcall'.value :
                          InForceAt(e, m) => pcall'.value[m] = e[2]]_vars

\* the months of the analysis window
AnalysisMonths == { month_list[i] : i \in 1..Len(month_list) }

\* C17 as stated: generate_ownership_series has exactly one value for every
\* month of the analysis window, equal to get_ownership_share(month)
C17_Claim ==
    pcall.call = "generate_ownership_series" =>
        /\ DOMAIN pcall.value = AnalysisMonths
        /\ \A m \in AnalysisMonths :
              pcall.value[m] = get_ownership_share(property, m).value

\* C17, amended: generate_ownership_series has exactly one value for every
\* month of the analysis window from the acquisition month on, and none for an
\* earlier month; each value equals get_ownership_share(month)
C17_Amended ==
    pcall.call = "generate_ownership_series" =>
        /\ DOMAIN pcall.value =
              { m \in AnalysisMonths : m >= property.acquisition_date }
        /\ \A m \in DOMAIN pcall.value :
              pcall.value[m] = get_ownership_share(property, m).value

\* a series was generated for a property acquired after the first month of
\* the window, with a buyout or sale that changes the share within the window
C17_Witness ==
    /\ pcall.call = "generate_ownership_series"
    /\ property.acquisition_date > month_list[1]
    /\ \E m \in DOMAIN pcall.value :
          pcall.value[m] # 0 /\ pcall.value[m] # property.ownership

\* ======================================================= Property valuation
\* Values are whole currency units, rates are in percent.
\* dict.get(key, 0)
dict_get(d, key) == IF key \in DOMAIN d THEN d[key] ELSE 0

RECURSIVE SumOver(_, _)
SumOver(d, keys) ==
    IF keys = {} THEN 0
    ELSE LET k == CHOOSE x \in keys : TRUE
         IN  d[k] + SumOver(d, keys \ {k})

\* the loop of capitalize_forward_noi: the sums of the windows
\* [start_date, next_month) left to add
RECURSIVE WindowSums(_, _, _)
WindowSums(noi, start_date, left) ==
    IF left = 0 THEN 0
    ELSE LET next_month == get_last_day_of_month(plus_one_month(start_date))
         IN  SumOver(noi, { d \in DOMAIN noi :
                               start_date <= d /\ d < next_month })
             + WindowSums(noi, next_month, left - 1)

\* Property.capitalize_forward_noi; cap_rate is the fraction
\* cap_rate[1] / cap_rate[2]
capitalize_forward_noi(noi, date_, cap_rate) ==
    (WindowSums(noi, date_, 12) * cap_rate[2]) \div cap_rate[1]

\* _calculate_forward_noi of the valuation service: the total of each month
\* of the list months
calculate_forward_noi(months, monthly_noi, purchase_month) ==
    [idx \in 1..Len(months) |->
        IF purchase_month # NoDate /\ months[idx] < purchase_month THEN 0
        ELSE SumOver(monthly_noi,
                     { months[t] : t \in { idx + offset : offset \in 1..12 }
                                          \cap (1..Len(months)) })]

\* x ** 12 for x in ten-thousandths
RECURSIVE fixed_pow(_, _)
fixed_pow(x, k) ==
    IF k = 0 THEN 10000 ELSE (fixed_pow(x, k - 1) * x) \div 10000

\* (1 + market_value_growth) ** (1 / 12), in ten-thousandths, for a growth
\* in percent
monthly_growth_rate(market_value_growth) ==
    CHOOSE r \in 10000 .. 10100 :
        /\ fixed_pow(r, 12) <= 100 * (100 + market_value_growth)
        /\ fixed_pow(r + 1, 12) > 100 * (100 + market_value_growth)

\* one iteration of the loop of grow_market_value: the current value of the
\* month at index idx (0-based, as in the source)
next_market_value(p, idx, current_value) ==
    LET month == month_list[idx + 1]
        construction_finished ==
            p.construction_end = NoDate \/ p.construction_end < month_list[1]
    IN  IF idx = 0 THEN p.market_value
        ELSE IF p.valuation_method = "cap_rate" /\ construction_finished
        THEN LET rate == 120 * p.cap_rate
                         + Min(idx, 120) * (p.exit_cap_rate - p.cap_rate)
             IN  IF rate # 0
                 THEN capitalize_forward_noi(p.noi, month,
                                             <<rate, 120 * 100>>)
                 ELSE 0
        ELSE IF month < p.disposition_date
        THEN LET capex == IF p.construction_end # NoDate
                             /\ month <= p.construction_end
                          THEN dict_get(p.capex, month) ELSE 0
             IN  (current_value * monthly_growth_rate(p.market_value_growth))
                     \div 10000 + capex
        ELSE 0

RECURSIVE GrowFrom(_, _, _, _)
GrowFrom(p, idx, current_value, values) ==
    IF idx >= Len(month_list) THEN values
    ELSE LET v == next_market_value(p, idx, current_value)
         IN  GrowFrom(p, idx + 1, v, Append(values, v))

\* Property.grow_market_value
grow_market_value(p) == GrowFrom(p, 0, p.market_value, <<>>)

\* Property.get_market_value_by_date
get_market_value_by_date(values, date_) ==
    values[CHOOSE i \in 1..Len(month_list) : month_list[i] = date_]

\* the NOI dicts passed to update_noi: 120 in one month of the window and 0
\* in the others, or 10 a month
NoiSeries ==
    { [d \in { month_list[i] : i \in 1..Len(month_list) } |->
          IF d = hot THEN 120 ELSE 0] :
        hot \in { month_list[i] : i \in 1..Len(month_list) } }
    \cup { [d \in { month_list[i] : i \in 1..Len(month_list) } |-> 10] }

CapexSeries == { [d \in {1, 3} |-> 50] }

MarketValues == {1000, 5000}

\* Property.__init__ (the valuation part): noi and capex empty, the
\* valuation method "cap_rate", and the market values computed and stored
ValuationInit ==
    \E acquisition_date \in {1, 3},
       disposition_date \in {5, 9},
       construction_end \in {NoDate, 3},
       exit_cap_rate \in {5, 8} :
        /\ property =
             [acquisition_date |-> get_last_day_of_month(acquisition_date),
              disposition_date |-> get_last_day_of_month(disposition_date),
              market_value |-> 1000, market_value_growth |-> 3,
              cap_rate |-> 5, exit_cap_rate |-> exit_cap_rate,
              construction_end |-> construction_end,
              valuation_method |-> "cap_rate",
              noi |-> <<>>, capex |-> <<>>]
        /\ market_values = grow_market_value(property)
        /\ ownership_changes = <<>>
        /\ pcall = Call("__init__", NoDate, 0)
        /\ property_ops = 0

\* a call that changes attributes of the property and returns nothing
Updates(name, p) ==
    /\ property_ops < MaxOps
    /\ property' = p
    /\ pcall' = Call(name, NoDate, 0)
    /\ property_ops' = property_ops + 1
    /\ UNCHANGED <<ownership_changes, market_values, loanVars, carryVars>>

\* a call that changes nothing and returns value
Returns(name, date_, value) ==
    /\ property_ops < MaxOps
    /\ pcall' = Call(name, date_, value)
    /\ property_ops' = property_ops + 1
    /\ UNCHANGED <<property, ownership_changes, market_values, loanVars,
                   carryVars>>

UpdateNoi(noi) == Updates("update_noi", [property EXCEPT !.noi = noi])

UpdateCapex(capex) ==
    Updates("update_capex", [property EXCEPT !.capex = capex])

UpdateMarketValue(market_value) ==
    Updates("update_market_value",
            [property EXCEPT !.market_value = market_value])

SetValuationMethod(valuation_method) ==
    Updates("set_valuation_method",
            [property EXCEPT !.valuation_method = valuation_method])

GetMarketValueByDate(date_) ==
    \E v \in {get_market_value_by_date(market_values, date_)} :
        Returns("get_market_value_by_date", date_, v)

GrowMarketValue ==
    \E v \in {grow_market_value(property)} :
        Returns("grow_market_value", NoDate, v)

\* capitalize_forward_noi(date_, 1.0): the forward NOI itself
CapitalizeForwardNoi(date_) ==
    \E v \in {capitalize_forward_noi(property.noi, date_, <<1, 1>>)} :
        Returns("capitalize_forward_noi", date_, v)

\* _calculate_forward_noi over the months of the window, the NOI of the
\* property and its acquisition month as purchase month
CalculateForwardNoi ==
    /\ property.noi # <<>>
    /\ \E v \in {calculate_forward_noi(month_list, property.noi,
                                       property.acquisition_date)} :
          Returns("_calculate_forward_noi", NoDate, v)

ValuationNext ==
    \/ \E noi \in NoiSeries : UpdateNoi(noi)
    \/ \E capex \in CapexSeries : UpdateCapex(capex)
    \/ \E v \in MarketValues : UpdateMarketValue(v)
    \/ \E m \in {"cap_rate", "growth"} : SetValuationMethod(m)
    \/ \E i \in 1..Len(month_list) : GetMarketValueByDate(month_list[i])
    \/ GrowMarketValue
    \/ \E i \in 1..Len(month_list) : CapitalizeForwardNoi(month_list[i])
    \/ CalculateForwardNoi

\* a Property has been constructed (valuation attributes), and nothing else
InitValuation == ValuationInit /\ LoanIdle /\ CarryIdle

\* one property, any sequence of valuation calls
SpecValuation == InitValuation /\ [][ValuationNext]_vars

\* the NOI of the twelve months strictly after the month of date_
ForwardTwelve(noi, date_) ==
    SumOver(noi, { d \in DOMAIN noi :
                      get_last_day_of_month(date_) < d
                      /\ d <= get_last_day_of_month(date_) + 24 })

\* C13: the forward NOI returned for month m, by _calculate_forward_noi and
\* by Property.capitalize_forward_noi (at a capitalisation rate of 1), is the
\* NOI of months m+1 .. m+12, and 0 for a month before the acquisition
C13_Claim ==
    /\ pcall.call = "capitalize_forward_noi" =>
          pcall.value =
              IF pcall.date < property.acquisition_date THEN 0
              ELSE ForwardTwelve(property.noi, pcall.date)
    /\ pcall.call = "_calculate_forward_noi" =>
          \A idx \in 1..Len(month_list) :
              pcall.value[idx] =
                  IF month_list[idx] < property.acquisition_date THEN 0
                  ELSE ForwardTwelve(property.noi, month_list[idx])

\* the half of C13 about the valuation service alone
C13_ServiceForwardNoi ==
    pcall.call = "_calculate_forward_noi" =>
        \A idx \in 1..Len(month_list) :
            pcall.value[idx] =
                IF month_list[idx] < property.acquisition_date THEN 0
                ELSE ForwardTwelve(property.noi, month_list[idx])

\* C14: in the series returned by grow_market_value, every month after the
\* disposition date has value 0 in both valuation modes, and the disposition
\* month has value 0 in growth mode
C14_Claim ==
    pcall.call = "grow_market_value" =>
        \A i \in 1..Len(month_list) :
            /\ month_list[i] > property.disposition_date =>
                  pcall.value[i] = 0
            /\ (month_list[i] = property.disposition_date
                /\ property.valuation_method = "growth") =>
                  pcall.value[i] = 0

\* the part of C14 about growth mode alone, for a property disposed of after
\* the first month of the window
C14_GrowthMode ==
    (pcall.call = "grow_market_value"
     /\ property.valuation_method = "growth") =>
        \A i \in 1..Len(month_list) :
            month_list[i] >= property.disposition_date => pcall.value[i] = 0

\* C15: get_market_value_by_date returns the value of the series computed
\* from the current inputs of the property (noi, capex, market value and
\* valuation method), never a value computed before they changed
C15_Claim ==
    pcall.call = "get_market_value_by_date" =>
        pcall.value =
            get_market_value_by_date(grow_market_value(property), pcall.date)

\* ========================================================= Property dilution
\* stated_value * effective_share, without the division by the stated share
effective_value_undivided(stated_value, stated_share, effective_share) ==
    RMul(stated_value, effective_share)

\* stated_value / stated_share * effective_share
effective_value(stated_value, stated_share, effective_share) ==
    RMul(RDiv(stated_value, stated_share), effective_share)

\* Property.get_effective_share_adjustment
get_effective_share_adjustment(stated_value, stated_share, effective_share) ==
    IF stated_share = Zero THEN Zero
    ELSE IF ~RLe(One, stated_share)
    THEN RSub(effective_value(stated_value, stated_share, effective_share),
              stated_value)
    ELSE Zero

\* Property.calculate_income_and_gain_loss on one row of the data frame
calculate_income_and_gain_loss(row) ==
    LET nav == RSub(row.market_value, row.ending_balance)
    IN  [gain_loss_dilution |->
            get_effective_share_adjustment(row.gain_loss, row.ownership_share,
                                           row.effective_share),
         nav |-> nav,
         gross_income_loss_dilution |->
            get_effective_share_adjustment(row.gross_income,
                                           row.ownership_share,
                                           row.effective_share),
         nav_dilution |->
            get_effective_share_adjustment(nav, row.ownership_share,
                                           row.effective_share),
         effective_share |-> row.effective_share]

\* the rows followed: a month of a property with its stated ownership share
\* (the constructor takes any number as ownership) and its effective share
DilutionRows ==
    [gain_loss : {Rat(0 - 50, 1), Zero, Rat(100, 1)},
     gross_income : {Rat(0 - 20, 1), Rat(30, 1)},
     market_value : {Rat(1200, 1)},
     ending_balance : {Zero, Rat(500, 1)},
     ownership_share : {Zero, Rat(1, 4), Rat(1, 2), One, Rat(6, 5)},
     effective_share : {Zero, Rat(2, 5), Rat(1, 2), One}]

DilutionInit ==
    /\ property \in DilutionRows
    /\ ownership_changes = <<>>
    /\ pcall = Call("__init__", NoDate, 0)
    /\ property_ops = 0
    /\ market_values = <<>>

CalculateIncomeAndGainLoss ==
    /\ property_ops = 0
    /\ \E r \in {calculate_income_and_gain_loss(property)} :
          pcall' = Call("calculate_income_and_gain_loss", NoDate, r)
    /\ property_ops' = 1
    /\ UNCHANGED <<property, ownership_changes, market_values, loanVars,
                   carryVars>>

InitDilution == DilutionInit /\ LoanIdle /\ CarryIdle

\* one row of a property's data frame and the dilution columns computed for it
SpecDilution == InitDilution /\ [][CalculateIncomeAndGainLoss]_vars

\* (v / s) * e - v
Diluted(v, s, e) == RSub(RMul(RDiv(v, s), e), v)

\* the three dilution columns are each adjustment(value, s, e)
DilutionColumns(adjustment(_)) ==
    /\ pcall.value.gain_loss_dilution = adjustment(property.gain_loss)
    /\ pcall.value.gross_income_loss_dilution =
          adjustment(property.gross_income)
    /\ pcall.value.nav_dilution =
          adjustment(RSub(property.market_value, property.ending_balance))

\* C23 as stated: the adjustment is 0 for a stated share of 0 or 1 and
\* (v / s) * e - v for every other stated share, for gain/loss, gross income
\* and NAV alike
C23_Claim ==
    pcall.call = "calculate_income_and_gain_loss" =>
        LET s == property.ownership_share
            e == property.effective_share
            adjustment(v) == IF s = Zero \/ s = One THEN Zero
                             ELSE Diluted(v, s, e)
        IN  DilutionColumns(adjustment)

\* C23, amended: the adjustment is 0 for a stated share of 0 and for every
\* stated share of 1 or more, and (v / s) * e - v for every other stated share
C23_Amended ==
    pcall.call = "calculate_income_and_gain_loss" =>
        LET s == property.ownership_share
            e == property.effective_share
            adjustment(v) == IF s = Zero \/ RLe(One, s) THEN Zero
                             ELSE Diluted(v, s, e)
        IN  DilutionColumns(adjustment)

\* the columns were computed for a partly owned property whose effective share
\* differs from its stated share, and the three adjustments differ
C23_Witness ==
    /\ pcall.call = "calculate_income_and_gain_loss"
    /\ property.ownership_share = Rat(1, 2)
    /\ property.effective_share = Rat(2, 5)
    /\ pcall.value.gain_loss_dilution = Rat(0 - 20, 1)
    /\ pcall.value.gross_income_loss_dilution = Rat(0 - 6, 1)
    /\ pcall.value.nav_dilution = Rat(0 - 140, 1)

\* ------------------------------------------------------------------------
\* backend performance service: quarterly appreciation of one property
\* ------------------------------------------------------------------------

\* a month-end without a market value in the valuation's series
NoValue == 0 - 100002

Quarters == {1, 2}

CashFlowTypes ==
    {"property_capex", "property_acquisition", "property_sale",
     "property_noi"}

CashFlowAmounts == {0 - 1000, 0 - 100, 900}

CashFlows == [cash_flow_type : CashFlowTypes, quarter : Quarters,
              amount : CashFlowAmounts]

\* value * percent, with the share in percent
times_percent(value, percent) == (value * percent) \div 100

\* percent = default or 1.0, for a property without ownership events
ownership_percent_default(default) == IF default = 0 THEN 100 ELSE default

RECURSIVE capex_total_of(_, _, _)
capex_total_of(cash_flows, label, i) ==
    IF i > Len(cash_flows) THEN 0
    ELSE (IF /\ cash_flows[i].cash_flow_type = "property_capex"
             /\ cash_flows[i].quarter = label
          THEN cash_flows[i].amount ELSE 0)
         + capex_total_of(cash_flows, label, i + 1)

RECURSIVE sale_of(_, _, _)
sale_of(cash_flows, quarter_end, i) ==
    IF i = 0 THEN NoValue
    ELSE IF /\ cash_flows[i].cash_flow_type = "property_sale"
            /\ cash_flows[i].quarter = quarter_end
         THEN cash_flows[i].amount
         ELSE sale_of(cash_flows, quarter_end, i - 1)

\* capex[label] and sales[quarter_end] of the one property
accumulate_property_events(cash_flows) ==
    [capex |-> [q \in Quarters |-> capex_total_of(cash_flows, q, 1)],
     sales |-> [q \in Quarters |->
                   sale_of(cash_flows, q, Len(cash_flows))]]

\* prev_value and the monthly values, scaled when ownership is applied
prepare_property_states(prop) ==
    [prev_value |->
        IF prop.apply_ownership
        THEN times_percent(prop.market_value_start, prop.ownership_percent)
        ELSE prop.market_value_start,
     monthly_values |->
        [q \in Quarters |->
            IF prop.apply_ownership /\ prop.market_values[q] # NoValue
            THEN times_percent(prop.market_values[q],
                               ownership_percent_default(
                                   prop.ownership_percent))
            ELSE prop.market_values[q]]]

\* the detail of one quarter, or skipped = TRUE when the quarter has neither
\* a market value nor a sale
calculate_appreciation_for_quarter(prop, quarter) ==
    LET events == accumulate_property_events(prop.cash_flows)
        percent == ownership_percent_default(prop.ownership_percent)
        monthly_entry == prop.monthly_values[quarter]
        sale_amount == events.sales[quarter]
        skipped == monthly_entry = NoValue /\ sale_amount = NoValue
        end_value ==
            IF monthly_entry = NoValue
            THEN (IF prop.apply_ownership
                  THEN times_percent(sale_amount, percent)
                  ELSE sale_amount)
            ELSE monthly_entry
        begin_value == prop.prev_value
        unscaled == 0 - events.capex[quarter]
        capex_total == IF prop.apply_ownership
                       THEN times_percent(unscaled, percent)
                       ELSE unscaled
        appreciation == (end_value - begin_value) - capex_total
    IN  IF skipped
        THEN [skipped |-> TRUE, prev_value |-> prop.prev_value]
        ELSE [skipped |-> FALSE, prev_value |-> end_value,
              begin_value |-> begin_value, end_value |-> end_value,
              capex |-> capex_total, appreciation |-> appreciation]

PerformanceProperties ==
    {[market_value_start |-> m, ownership_percent |-> o,
      apply_ownership |-> a, market_values |-> <<v1, v2>>,
      cash_flows |-> f] :
        m \in {0, 1000}, o \in {50, 100}, a \in BOOLEAN,
        v1 \in {NoValue, 1100, 1200}, v2 \in {NoValue, 1100, 1200},
        f \in SeqsUpTo(CashFlows, 2)}

PerformanceInit ==
    /\ \E prop \in PerformanceProperties :
          \E state \in {prepare_property_states(prop)} :
             property = prop @@ state
    /\ ownership_changes = <<>>
    /\ pcall = Call("_prepare_property_states", NoDate, 0)
    /\ property_ops = 0
    /\ market_values = <<>>

CalculateAppreciationForQuarter ==
    /\ property_ops + 1 \in Quarters
    /\ \E d \in {calculate_appreciation_for_quarter(property,
                                                    property_ops + 1)} :
          /\ property' = [property EXCEPT !.prev_value = d.prev_value]
          /\ pcall' = Call("_calculate_appreciation_for_quarter",
                           property_ops + 1, d)
    /\ property_ops' = property_ops + 1
    /\ UNCHANGED <<ownership_changes, market_values, loanVars, carryVars>>

InitPerformance == PerformanceInit /\ LoanIdle /\ CarryIdle

\* one property's quarters of build_quarterly_performance, in order
SpecAppreciation == InitPerformance /\ [][CalculateAppreciationForQuarter]_vars

\* sign-flipped total of the quarter's flows of the given types
RECURSIVE FlowTotal(_, _, _, _)
FlowTotal(cash_flows, types, quarter, i) ==
    IF i > Len(cash_flows) THEN 0
    ELSE (IF /\ cash_flows[i].cash_flow_type \in types
             /\ cash_flows[i].quarter = quarter
          THEN 0 - cash_flows[i].amount ELSE 0)
         + FlowTotal(cash_flows, types, quarter, i + 1)

\* the detail of a quarter is net of the capital spending counted over the
\* given flow types
NetOfCapex(types) ==
    (/\ pcall.call = "_calculate_appreciation_for_quarter"
     /\ ~property.apply_ownership
     /\ ~pcall.value.skipped) =>
        /\ pcall.value.capex =
              FlowTotal(property.cash_flows, types, pcall.date, 1)
        /\ pcall.value.appreciation =
              (pcall.value.end_value - pcall.value.begin_value)
              - pcall.value.capex

\* C24: a property's quarterly appreciation is (end value - begin value) -
\* capex, where capex is the sign-flipped total of the quarter's
\* property_capex flows and of its property_acquisition flows
C24_Claim == NetOfCapex({"property_capex", "property_acquisition"})

\* what the code does: only property_capex flows are counted
C24_CapexOnly == NetOfCapex({"property_capex"})

\* ------------------------------------------------------------------------
\* backend property valuation service: the monthly cap-rate series
\* ------------------------------------------------------------------------
\* Dates are month-ends, written as the number of months after the month of
\* the portfolio's analysis_start_date; amounts and rates are rationals.

\* Python's None in place of a rate or an amount
None == [n |-> 0, d |-> 0]

start_month == 0

\* extended_end = _month_end(end_month + relativedelta(years=11))
extended_end(end_month) == end_month + 11 * 12

\* NOI of one month of the projection, without manual entries
project_monthly_noi(property_obj, current) ==
    LET purchase_month == property_obj.purchase_month
        growth_base == IF purchase_month # NoDate THEN purchase_month
                       ELSE start_month
        months_since_start == Max(0, current - growth_base)
        full_years_elapsed == IF months_since_start > 0
                              THEN (months_since_start - 1) \div 12 ELSE 0
        annual_noi ==
            RMul(property_obj.initial_noi,
                 RPow(RAdd(One, property_obj.noi_growth_rate),
                      full_years_elapsed))
    IN  IF purchase_month # NoDate /\ current < purchase_month THEN Zero
        ELSE IF property_obj.initial_noi = None THEN Zero
        ELSE RDiv(annual_noi, Rat(12, 1))

RECURSIVE forward_total(_, _, _)
forward_total(property_obj, idx, offset) ==
    IF offset >= 1 + 12 THEN Zero
    ELSE IF idx + offset >= extended_end(property_obj.end_month) + 1
    THEN Zero
    ELSE RAdd(project_monthly_noi(property_obj, idx + offset),
              forward_total(property_obj, idx, offset + 1))

\* totals[month] of _calculate_forward_noi
forward_noi_12m(property_obj, month) ==
    IF /\ property_obj.purchase_month # NoDate
       /\ month < property_obj.purchase_month
    THEN Zero
    ELSE forward_total(property_obj, month, 1)

months_between(start, end) == end - start

interpolated_cap_rate(year1_cap, exit_cap, start, target_month, exit_month) ==
    IF exit_cap = None \/ RLe(exit_cap, Zero) THEN year1_cap
    ELSE IF year1_cap = None THEN exit_cap
    ELSE IF exit_month <= start THEN exit_cap
    ELSE LET total_months == Max(1, months_between(start, exit_month))
             elapsed == Max(0, Min(total_months,
                                   months_between(start, target_month)))
             t == RMin(One, Rat(elapsed, total_months))
         IN  RAdd(year1_cap, RMul(RSub(exit_cap, year1_cap), t))

\* round(x, 2), to the nearest hundredth
round_2(x) == Rat((2 * 100 * x.n + x.d) \div (2 * x.d), 100)

calculate_property_valuation(property_obj) ==
    LET end_month == property_obj.end_month
        market_value_start ==
            IF property_obj.market_value_start = None THEN Zero
            ELSE property_obj.market_value_start
        forward_first_year == forward_noi_12m(property_obj, start_month)
        year1_cap ==
            IF market_value_start # Zero /\ forward_first_year # Zero
            THEN RDiv(forward_first_year, market_value_start)
            ELSE None
        exit_cap == property_obj.exit_cap_rate
        exit_month == IF property_obj.exit_month # NoDate
                      THEN property_obj.exit_month ELSE end_month
        override_price == property_obj.disposition_price_override
        entry(month) ==
            LET cap_rate == interpolated_cap_rate(year1_cap, exit_cap,
                                start_month, month, exit_month)
                forward == forward_noi_12m(property_obj, month)
                market_value ==
                    IF override_price # None /\ month = exit_month
                    THEN override_price
                    ELSE IF cap_rate # None /\ cap_rate # Zero
                    THEN RDiv(forward, cap_rate)
                    ELSE None
            IN  [date |-> month,
                 forward_noi_12m |-> round_2(forward),
                 cap_rate |-> cap_rate,
                 market_value |-> IF market_value = None THEN None
                                  ELSE round_2(market_value)]
    IN  [year1_cap_rate |-> year1_cap,
         monthly_market_values |->
            [i \in 1 .. (end_month + 1) |-> entry(i - 1)]]

ValuedProperties ==
    {[end_month |-> e, purchase_price |-> Rat(p, 1),
      market_value_start |-> m, purchase_month |-> pm, exit_month |-> x,
      exit_cap_rate |-> c, initial_noi |-> Rat(n, 1),
      noi_growth_rate |-> g, disposition_price_override |-> o] :
        e \in {3, 5}, p \in {1000, 2000},
        m \in {None, Rat(1000, 1), Rat(2000, 1)},
        pm \in {NoDate, 0, 1}, x \in {NoDate, 0, 2, 6},
        c \in {None, Zero, Rat(15, 100)}, n \in {120, 240},
        g \in {Zero, Rat(1, 10)}, o \in {None, Rat(3000, 1)}}

ValuedInit ==
    /\ property \in ValuedProperties
    /\ ownership_changes = <<>>
    /\ pcall = Call("__init__", NoDate, 0)
    /\ property_ops = 0
    /\ market_values = <<>>

CalculatePropertyValuation ==
    /\ property_ops = 0
    /\ \E v \in {calculate_property_valuation(property)} :
          pcall' = Call("calculate_property_valuation", NoDate, v)
    /\ property_ops' = 1
    /\ UNCHANGED <<property, ownership_changes, market_values, loanVars,
                   carryVars>>

InitValued == ValuedInit /\ LoanIdle /\ CarryIdle

\* one property of a portfolio and the valuation computed for it
SpecCapRate == InitValued /\ [][CalculatePropertyValuation]_vars

\* the valuation's cap rates start at the first month's forward 12-month
\* NOI divided by basis and move linearly to exit_cap_rate, which they reach
\* at the exit month
CapRateSeries(basis) ==
    (/\ pcall.call = "calculate_property_valuation"
     /\ basis # None
     /\ property.exit_cap_rate # None /\ property.exit_cap_rate # Zero
     /\ property.exit_month # NoDate /\ property.exit_month > start_month
     /\ forward_noi_12m(property, start_month) # Zero) =>
        LET valuation == pcall.value
            series == valuation.monthly_market_values
            implied == RDiv(forward_noi_12m(property, start_month), basis)
            step == RDiv(RSub(property.exit_cap_rate, implied),
                         Rat(property.exit_month, 1))
        IN  /\ valuation.year1_cap_rate = implied
            /\ series[1].cap_rate = implied
            /\ \A i \in DOMAIN series :
                  series[i].cap_rate =
                     IF series[i].date >= property.exit_month
                     THEN property.exit_cap_rate
                     ELSE RAdd(implied,
                               RMul(step, Rat(series[i].date, 1)))

\* C25: the year-1 cap rate is the first month's forward 12-month NOI divided
\* by the purchase price, the monthly cap-rate series starts there and is
\* interpolated linearly to exit_cap_rate, reached at the exit month
C25_Claim == CapRateSeries(property.purchase_price)

\* what the code does: the implied cap rate is taken on market_value_start
C25_OnMarketValueStart == CapRateSeries(property.market_value_start)

\* ------------------------------------------------------------------------
\* backend covenant service: fund-level metrics
\* ------------------------------------------------------------------------

\* None for a zero denominator, numerator / denominator otherwise
safe_divide(numerator, denominator) ==
    IF denominator = 0 THEN None ELSE Rat(numerator, denominator)

\* sum(entry.get(field, 0.0) for entry in properties.values())
RECURSIVE sum_entries(_, _, _)
sum_entries(properties, field, i) ==
    IF i > Len(properties) THEN 0
    ELSE properties[i][field] + sum_entries(properties, field, i + 1)

\* dict.get(month, {}) on a mapping kept as a function of months
get_month(mapping, month, default) ==
    IF month \in DOMAIN mapping THEN mapping[month] ELSE default

calculate_fund_metrics(months, property_metrics, unassigned_metrics) ==
    [month \in {months[i] : i \in DOMAIN months} |->
        LET properties == get_month(property_metrics, month, <<>>)
            unassigned ==
                get_month(unassigned_metrics, month,
                          [ttm_debt_service |-> 0, outstanding |-> 0])
            total_noi == sum_entries(properties, "ttm_noi", 1)
            total_value == sum_entries(properties, "market_value", 1)
            total_debt_service ==
                sum_entries(properties, "ttm_debt_service", 1)
                + unassigned.ttm_debt_service
            total_outstanding ==
                sum_entries(properties, "outstanding_debt", 1)
                + unassigned.outstanding
        IN  [ttm_noi |-> total_noi,
             ttm_debt_service |-> total_debt_service,
             outstanding_debt |-> total_outstanding,
             market_value |-> total_value,
             dscr |-> safe_divide(total_noi, total_debt_service),
             ltv |-> safe_divide(total_outstanding, total_value),
             debt_yield |-> safe_divide(total_noi, total_outstanding),
             has_data |-> TRUE]]

PropertyMetrics ==
    [ttm_noi : {50, 100}, ttm_debt_service : {0, 25},
     outstanding_debt : {0, 500}, market_value : {900, 1000}]

UnassignedMetrics ==
    {[ttm_debt_service |-> 0, outstanding |-> 0],
     [ttm_debt_service |-> 20, outstanding |-> 200]}

\* a mapping with the one key month, or the empty mapping
OptionalAt(month, values) ==
    {<<>>} \cup {[m \in {month} |-> v] : v \in values}

FundInputs ==
    {[month_list |-> <<0, 1>>,
      property_metrics |-> first @@ second,
      unassigned_metrics |-> unassigned] :
        first \in OptionalAt(0, SeqsUpTo(PropertyMetrics, 2) \ {<<>>}),
        second \in OptionalAt(1,
                     {<<[ttm_noi |-> 50, ttm_debt_service |-> 25,
                         outstanding_debt |-> 500,
                         market_value |-> 900]>>}),
        unassigned \in OptionalAt(0, UnassignedMetrics)}

FundInit ==
    /\ property \in FundInputs
    /\ ownership_changes = <<>>
    /\ pcall = Call("__init__", NoDate, 0)
    /\ property_ops = 0
    /\ market_values = <<>>

CalculateFundMetrics ==
    /\ property_ops = 0
    /\ \E f \in {calculate_fund_metrics(property.month_list,
                                        property.property_metrics,
                                        property.unassigned_metrics)} :
          pcall' = Call("_calculate_fund_metrics", NoDate, f)
    /\ property_ops' = 1
    /\ UNCHANGED <<property, ownership_changes, market_values, loanVars,
                   carryVars>>

InitFund == FundInit /\ LoanIdle /\ CarryIdle

\* the per-property and unassigned-loan metrics of two months and the fund
\* metrics computed from them
SpecFund == InitFund /\ [][CalculateFundMetrics]_vars

\* the entries of a month, and those that carry no outstanding debt
MonthEntries(month) == get_month(property.property_metrics, month, <<>>)
Unencumbered(month) ==
    SelectSeq(MonthEntries(month), LAMBDA e : e.outstanding_debt = 0)
Unsecured(month) ==
    get_month(property.unassigned_metrics, month,
              [ttm_debt_service |-> 0, outstanding |-> 0])

\* the fund totals of every month: NOI and market value over the properties,
\* debt service and outstanding debt over the properties and unassigned loans
FundTotals ==
    pcall.call = "_calculate_fund_metrics" =>
        \A month \in {0, 1} :
            /\ month \in DOMAIN pcall.value
            /\ LET fund == pcall.value[month]
                   entries == MonthEntries(month)
               IN  /\ fund.ttm_noi = sum_entries(entries, "ttm_noi", 1)
                   /\ fund.market_value =
                         sum_entries(entries, "market_value", 1)
                   /\ fund.ttm_debt_service =
                         sum_entries(entries, "ttm_debt_service", 1)
                         + Unsecured(month).ttm_debt_service
                   /\ fund.outstanding_debt =
                         sum_entries(entries, "outstanding_debt", 1)
                         + Unsecured(month).outstanding

\* the unencumbered details of every month
UnencumberedDetails ==
    pcall.call = "_calculate_fund_metrics" =>
        \A month \in {0, 1} :
            /\ month \in DOMAIN pcall.value
            /\ {"unencumbered_ttm_noi", "unencumbered_market_value",
                "unencumbered_ttm_debt_service", "unencumbered_debt",
                "unencumbered_dscr", "unencumbered_ltv"}
                  \subseteq DOMAIN pcall.value[month]
            /\ LET fund == pcall.value[month]
                   free == Unencumbered(month)
                   noi == sum_entries(free, "ttm_noi", 1)
                   value == sum_entries(free, "market_value", 1)
                   unsecured == Unsecured(month)
               IN  /\ fund.unencumbered_ttm_noi = noi
                   /\ fund.unencumbered_market_value = value
                   /\ fund.unencumbered_ttm_debt_service =
                         unsecured.ttm_debt_service
                   /\ fund.unencumbered_debt = unsecured.outstanding
                   /\ fund.unencumbered_dscr =
                         safe_divide(noi, unsecured.ttm_debt_service)
                   /\ fund.unencumbered_ltv =
                         safe_divide(unsecured.outstanding, value)

\* C26: for every month the fund metrics hold the fund totals together with
\* the unencumbered details (NOI and market value of the properties without
\* outstanding debt, debt service and debt of the unassigned loans, and the
\* unencumbered DSCR and LTV computed from them)
C26_Claim == FundTotals /\ UnencumberedDetails

====
